---- MODULE Spec2Model ----
(***************************************************************************)
(* Model of epyt_flow.simulation.scada.scada_data.ScadaData: the raw       *)
(* per-quantity arrays, the sensor configuration, the ordered list of      *)
(* sensor reading events, the sensor noise, the cached final readings and  *)
(* the operations change_*, join, concatenate and get_data.                *)
(*                                                                         *)
(* Representation.  A numpy array is a record                              *)
(*   [isNone |-> FALSE, dims |-> trailing dimensions, rows |-> rows]       *)
(* and Python's None in an array slot is the record None below; a 1-d time *)
(* vector is a plain sequence.  Python indices are 0-based, the model's    *)
(* are 1-based; the index None of an event that has no column is NoIdx.    *)
(***************************************************************************)
EXTENDS Integers, Sequences, FiniteSets, TLC

(***************************************************************************)
(* Bounds of the model.                                                    *)
(***************************************************************************)
MaxLen == 2
MaxRows == 4

TimeVals == {0, 1}

(***************************************************************************)
(* numpy arrays.                                                           *)
(***************************************************************************)
None == [isNone |-> TRUE, dims |-> <<>>, rows |-> <<>>]

Arr(dims, rows) == [isNone |-> FALSE, dims |-> dims, rows |-> rows]

NoIdx == 0

NRows(a) == Len(a.rows)

\* data[:, idx] for a 2-d array
TakeCols(a, idx) ==
    Arr(<<Len(idx)>>,
        [r \in 1..Len(a.rows) |-> [k \in 1..Len(idx) |-> a.rows[r][idx[k]]]])

\* data[:, species_idx, item_idx].reshape(-1, len(item_idx)) for a 3-d array
TakeSpeciesCols(a, species_idx, item_idx) ==
    Arr(<<Len(item_idx)>>,
        [r \in 1..Len(a.rows) |->
            [k \in 1..Len(item_idx) |-> a.rows[r][species_idx][item_idx[k]]]])

\* numpy.concatenate((a, b), axis=0) succeeds
CanVCat(a, b) == ~a.isNone /\ ~b.isNone /\ a.dims = b.dims

\* numpy.concatenate((a, b), axis=0)
VCat(a, b) == Arr(a.dims, a.rows \o b.rows)

RECURSIVE SumCols(_)
SumCols(blocks) ==
    IF blocks = <<>> THEN 0 ELSE Head(blocks).dims[1] + SumCols(Tail(blocks))

RECURSIVE RowCat(_, _)
RowCat(blocks, r) ==
    IF blocks = <<>> THEN <<>> ELSE Head(blocks).rows[r] \o RowCat(Tail(blocks), r)

\* numpy.concatenate(blocks, axis=1) succeeds: at least one array, all 2-d
\* with the same number of rows
CanHCat(blocks) ==
    /\ blocks # <<>>
    /\ \A k \in 1..Len(blocks) : Len(blocks[k].dims) = 1
    /\ \A k \in 1..Len(blocks) : NRows(blocks[k]) = NRows(blocks[1])

\* numpy.concatenate(blocks, axis=1)
HCat(blocks) ==
    Arr(<<SumCols(blocks)>>, [r \in 1..NRows(blocks[1]) |-> RowCat(blocks, r)])

\* numpy.all(a == b) for two 1-d arrays: elementwise with broadcasting of a
\* length-1 operand; shapes that do not broadcast give no True
NpAllEqual(a, b) ==
    IF Len(a) = Len(b) THEN \A i \in 1..Len(a) : a[i] = b[i]
    ELSE IF Len(a) = 1 THEN \A i \in 1..Len(b) : a[1] = b[i]
    ELSE IF Len(b) = 1 THEN \A i \in 1..Len(a) : a[i] = b[1]
    ELSE FALSE

\* any(e1 != e2 for e1, e2 in zip(l1, l2)): zip stops at the shorter list
AnyZipDiffers(l1, l2) ==
    \E i \in 1..Len(l1) : i <= Len(l2) /\ l1[i] # l2[i]

\* list(filter(pred, l)) for the predicate "class of e is not cls"
RECURSIVE FilterNotClass(_, _)
FilterNotClass(l, cls) ==
    IF l = <<>> THEN <<>>
    ELSE IF Head(l).cls = cls THEN FilterNotClass(Tail(l), cls)
    ELSE <<Head(l)>> \o FilterNotClass(Tail(l), cls)

(***************************************************************************)
(* SensorConfig (epyt_flow.simulation.sensor_config): a record holding the *)
(* element lists of the network and, per role, the list of sensor ids; a   *)
(* species role holds the ordered dictionary species -> element ids as a   *)
(* sequence of pairs <<species, ids>>.                                     *)
(***************************************************************************)
Roles ==
    <<"pressure", "flow", "demand", "node_quality", "link_quality", "valve_state",
      "pump_state", "tank_volume", "surface_species", "bulk_species_node",
      "bulk_species_link">>

\* the attribute of the sensor configuration that holds the sensors of a role
SensorsAttr ==
    [pressure |-> "pressure_sensors", flow |-> "flow_sensors",
     demand |-> "demand_sensors", node_quality |-> "quality_node_sensors",
     link_quality |-> "quality_link_sensors", valve_state |-> "valve_state_sensors",
     pump_state |-> "pump_state_sensors", tank_volume |-> "tank_volume_sensors",
     surface_species |-> "surface_species_sensors",
     bulk_species_node |-> "bulk_species_node_sensors",
     bulk_species_link |-> "bulk_species_link_sensors"]

SpeciesRoles == {"surface_species", "bulk_species_node", "bulk_species_link"}

\* the element list a role's sensor ids are looked up in
ElementsAttr ==
    [pressure |-> "nodes", flow |-> "links", demand |-> "nodes",
     node_quality |-> "nodes", link_quality |-> "links", valve_state |-> "valves",
     pump_state |-> "pumps", tank_volume |-> "tanks", surface_species |-> "links",
     bulk_species_node |-> "nodes", bulk_species_link |-> "links"]

SpeciesAttr ==
    [surface_species |-> "surface_species", bulk_species_node |-> "bulk_species",
     bulk_species_link |-> "bulk_species"]

\* list.index(item): position of an id in a list of ids
IdToIdx(items, id) == CHOOSE i \in 1..Len(items) : items[i] = id

RECURSIVE FlattenSpecies(_)
FlattenSpecies(d) ==
    IF d = <<>> THEN <<>>
    ELSE [k \in 1..Len(Head(d)[2]) |-> <<Head(d)[1], Head(d)[2][k]>>]
         \o FlattenSpecies(Tail(d))

\* the sensors of a role in column order; a species sensor is <<species, id>>
RoleSensors(cfg, role) ==
    IF role \in SpeciesRoles THEN FlattenSpecies(cfg[SensorsAttr[role]])
    ELSE cfg[SensorsAttr[role]]

RECURSIVE CountBefore(_, _)
CountBefore(cfg, k) ==
    IF k <= 1 THEN 0
    ELSE CountBefore(cfg, k - 1) + Len(RoleSensors(cfg, Roles[k - 1]))

RoleIdx(role) == CHOOSE k \in 1..Len(Roles) : Roles[k] = role

TotalSensors(cfg) == CountBefore(cfg, Len(Roles) + 1)

\* SensorConfig.get_index_of_reading(<role>_sensor=id): the column of the
\* sensor in the final readings; NoIdx when the role has no such sensor
GetIndexOfReading(cfg, role, id) ==
    IF role \in {Roles[k] : k \in 1..Len(Roles)}
       /\ \E i \in 1..Len(RoleSensors(cfg, role)) : RoleSensors(cfg, role)[i] = id
    THEN CountBefore(cfg, RoleIdx(role))
         + (CHOOSE i \in 1..Len(RoleSensors(cfg, role)) : RoleSensors(cfg, role)[i] = id)
    ELSE NoIdx

(***************************************************************************)
(* Sensor reading events and sensor noise (external collaborators).  An    *)
(* event is [cls, sensor_type, sensor_id, fn]; cls is its class, one of    *)
(* SensorFault, SensorReadingAttack (both subclasses of SensorReadingEvent)*)
(* and SensorReadingEvent itself.  apply works elementwise on the rows     *)
(* whose time stamp exists.                                                *)
(***************************************************************************)
EventFn(fn, x, t) ==
    CASE fn = "add" -> x + 1 + t
      [] fn = "dbl" -> 2 * x
      [] OTHER -> 0

\* event.apply(column, sensor_readings_time)
EventApply(e, col, time) ==
    [i \in 1..Len(col) |->
        IF i <= Len(time) THEN EventFn(e.fn, col[i], time[i]) ELSE col[i]]

\* the values sensor_noise.apply can draw for its perturbation, and the one
\* drawn when the draw is not an input of the call
NoiseDraws == {5, 6}
Draw0 == 5

\* sensor_noise.apply(matrix) under the draw d: a perturbation of every entry
NoiseApplyDraw(noise, x, d) == IF noise = "None" THEN x ELSE x + d

\* sensor_noise.apply(matrix): a deterministic perturbation of every entry
NoiseApply(noise, x) == NoiseApplyDraw(noise, x, Draw0)

(***************************************************************************)
(* ScadaData: the instance is a record with the attributes of the class.   *)
(***************************************************************************)
\* the raw arrays that feed the sensor readings, with the role they belong to
RawAttr ==
    [pressure |-> "pressure_data_raw", flow |-> "flow_data_raw",
     demand |-> "demand_data_raw", node_quality |-> "node_quality_data_raw",
     link_quality |-> "link_quality_data_raw",
     valve_state |-> "valves_state_data_raw", pump_state |-> "pumps_state_data_raw",
     tank_volume |-> "tanks_volume_data_raw",
     surface_species |-> "surface_species_concentration_raw",
     bulk_species_node |-> "bulk_species_node_concentration_raw",
     bulk_species_link |-> "bulk_species_link_concentration_raw"]

PumpAttrs == {"pump_energy_usage_data", "pump_efficiency_data"}

ArrayAttrs == {RawAttr[Roles[k]] : k \in 1..Len(Roles)} \cup PumpAttrs

\* ScadaData.__init: the event-application plan, one (idx, event) pair per
\* event in list order
BuildPlan(cfg, events) ==
    [k \in 1..Len(events) |->
        [idx |-> GetIndexOfReading(cfg, events[k].sensor_type, events[k].sensor_id),
         ev |-> events[k]]]

\* a faulty __init that rebuilds the plan and keeps the cached readings
ReInitKeepsCache(s) ==
    [s EXCEPT !.apply_sensor_reading_events =
                  BuildPlan(s.sensor_config, s.sensor_reading_events)]

\* ScadaData.__init: rebuilds the plan and drops the cached readings
ReInit(s) ==
    [s EXCEPT !.apply_sensor_reading_events =
                  BuildPlan(s.sensor_config, s.sensor_reading_events),
              !.sensor_readings = None]

\* __reduce_data of ScadaData.__init__ (frozen sensor configuration)
ReduceData(data, sensors, items) ==
    IF data.isNone \/ Len(sensors) = 0 THEN None
    ELSE TakeCols(data, [k \in 1..Len(sensors) |-> IdToIdx(items, sensors[k])])

\* __reduce_msx_data of ScadaData.__init__ (frozen sensor configuration);
\* sensors is the dictionary species -> element ids
ReduceMsxData(data, sensors, species, items) ==
    IF data.isNone \/ Len(sensors) = 0 THEN None
    ELSE HCat([k \in 1..Len(sensors) |->
                 TakeSpeciesCols(data, IdToIdx(species, sensors[k][1]),
                    [j \in 1..Len(sensors[k][2]) |-> IdToIdx(items, sensors[k][2][j])])])

\* the stored raw array of a role
StoredRaw(a, role) ==
    LET cfg == a.sensor_config
        data == a[RawAttr[role]]
    IN  IF ~a.frozen_sensor_config THEN data
        ELSE IF role \in SpeciesRoles
        THEN ReduceMsxData(data, cfg[SensorsAttr[role]], cfg[SpeciesAttr[role]],
                           cfg[ElementsAttr[role]])
        ELSE ReduceData(data, cfg[SensorsAttr[role]], cfg[ElementsAttr[role]])

\* a shape check that would leave out the pump energy usage and efficiency
ShapesMatchRawOnly(a) ==
    \A f \in ArrayAttrs \ PumpAttrs :
        a[f].isNone \/ NRows(a[f]) = Len(a.sensor_readings_time)

\* the shape check of ScadaData.__init__: every given array has as many rows
\* as sensor_readings_time
ShapesMatch(a) ==
    \A f \in ArrayAttrs : a[f].isNone \/ NRows(a[f]) = Len(a.sensor_readings_time)

\* the event lists given to ScadaData.__init__ hold events of the right class
EventTypesOk(a) ==
    /\ \A k \in 1..Len(a.sensor_faults) : a.sensor_faults[k].cls = "SensorFault"
    /\ \A k \in 1..Len(a.sensor_reading_attacks) :
          a.sensor_reading_attacks[k].cls = "SensorReadingAttack"

\* ScadaData.__init__ raises on these arguments unless this holds
ConstructorAccepts(a) == ShapesMatch(a) /\ EventTypesOk(a)

\* the order in which ScadaData.__init__ checks the shapes of the arrays
ShapeCheckOrder ==
    <<"pressure_data_raw", "flow_data_raw", "demand_data_raw", "node_quality_data_raw",
      "link_quality_data_raw", "valves_state_data_raw", "pumps_state_data_raw",
      "tanks_volume_data_raw", "bulk_species_node_concentration_raw",
      "bulk_species_link_concentration_raw", "surface_species_concentration_raw",
      "pump_energy_usage_data", "pump_efficiency_data">>

\* the field named by __raise_shape_mismatch: the first one, in the order of
\* the checks, whose number of rows is not the number of time steps
ShapeMismatchIn(a) ==
    LET bad(k) == /\ ~a[ShapeCheckOrder[k]].isNone
                  /\ NRows(a[ShapeCheckOrder[k]]) # Len(a.sensor_readings_time)
    IN  ShapeCheckOrder[CHOOSE k \in 1..Len(ShapeCheckOrder) :
                            bad(k) /\ \A j \in 1..(k - 1) : ~bad(j)]

\* ScadaData.__init__ on accepted arguments: the new instance
NewScadaData(a) ==
    ReInit(
      [sensor_config |-> a.sensor_config,
       sensor_noise |-> a.sensor_noise,
       sensor_reading_events |->
           a.sensor_faults \o a.sensor_reading_attacks \o a.sensor_reading_events,
       sensor_readings |-> None,
       frozen_sensor_config |-> a.frozen_sensor_config,
       sensor_readings_time |-> a.sensor_readings_time,
       pump_energy_usage_data |-> a.pump_energy_usage_data,
       pump_efficiency_data |-> a.pump_efficiency_data,
       pressure_data_raw |-> StoredRaw(a, "pressure"),
       flow_data_raw |-> StoredRaw(a, "flow"),
       demand_data_raw |-> StoredRaw(a, "demand"),
       node_quality_data_raw |-> StoredRaw(a, "node_quality"),
       link_quality_data_raw |-> StoredRaw(a, "link_quality"),
       pumps_state_data_raw |-> StoredRaw(a, "pump_state"),
       valves_state_data_raw |-> StoredRaw(a, "valve_state"),
       tanks_volume_data_raw |-> StoredRaw(a, "tank_volume"),
       surface_species_concentration_raw |-> StoredRaw(a, "surface_species"),
       bulk_species_node_concentration_raw |-> StoredRaw(a, "bulk_species_node"),
       bulk_species_link_concentration_raw |-> StoredRaw(a, "bulk_species_link"),
       apply_sensor_reading_events |-> <<>>])

\* the indexing of __reduce_data and __reduce_msx_data succeeds: data[:, idx]
\* on a 2-d array with every index among its columns, data[:, species, items]
\* on a 3-d array with every index within its dimensions
ReduceDefined(a) ==
    \A role \in {Roles[k] : k \in 1..Len(Roles)} :
        LET cfg == a.sensor_config
            data == a[RawAttr[role]]
            sens == RoleSensors(cfg, role)
        IN  (data.isNone \/ sens = <<>>) \/
            IF role \in SpeciesRoles
            THEN /\ Len(data.dims) = 2
                 /\ \A k \in 1..Len(sens) :
                       /\ IdToIdx(cfg[SpeciesAttr[role]], sens[k][1]) <= data.dims[1]
                       /\ IdToIdx(cfg[ElementsAttr[role]], sens[k][2]) <= data.dims[2]
            ELSE /\ Len(data.dims) = 1
                 /\ \A k \in 1..Len(sens) :
                       IdToIdx(cfg[ElementsAttr[role]], sens[k]) <= data.dims[1]

\* ScadaData(**a) where s is the instance held before the call: the type
\* checks, the shape checks, then the new instance, whose arrays a frozen
\* sensor configuration reduces to the sensors; a shape error carries the
\* name of the field
Construct(s, a) ==
    IF ~EventTypesOk(a) THEN [st |-> s, res |-> "TypeError"]
    ELSE IF ~ShapesMatch(a)
    THEN [st |-> s, res |-> "ValueError", ret |-> [var_name |-> ShapeMismatchIn(a)]]
    ELSE IF a.frozen_sensor_config /\ ~ReduceDefined(a)
    THEN [st |-> s, res |-> "IndexError"]
    ELSE [st |-> NewScadaData(a), res |-> "ok"]

(***************************************************************************)
(* get_data: the projection of the raw arrays onto the sensor readings.    *)
(***************************************************************************)
\* the columns of one role selected by SensorConfig.compute_readings
RoleColumns(cfg, role, data) ==
    IF role \in SpeciesRoles
    THEN LET sens == RoleSensors(cfg, role)
         IN  Arr(<<Len(sens)>>,
                 [r \in 1..Len(data.rows) |->
                     [k \in 1..Len(sens) |->
                         data.rows[r][IdToIdx(cfg[SpeciesAttr[role]], sens[k][1])]
                                     [IdToIdx(cfg[ElementsAttr[role]], sens[k][2])]]])
    ELSE TakeCols(data, [k \in 1..Len(cfg[SensorsAttr[role]]) |->
                            IdToIdx(cfg[ElementsAttr[role]], cfg[SensorsAttr[role]][k])])

RECURSIVE ReadingBlocks(_, _)
\* SensorConfig.compute_readings: the blocks of the roles k.. that have raw data
ReadingBlocks(s, k) ==
    IF k > Len(Roles) THEN <<>>
    ELSE LET data == s[RawAttr[Roles[k]]]
         IN  (IF data.isNone THEN <<>>
              ELSE <<RoleColumns(s.sensor_config, Roles[k], data)>>)
             \o ReadingBlocks(s, k + 1)

\* SensorConfig.compute_readings raises when sensors of a role are set and
\* the role's raw data is missing
ReadingsDefined(s) ==
    \A k \in 1..Len(Roles) :
        s[RawAttr[Roles[k]]].isNone => Len(RoleSensors(s.sensor_config, Roles[k])) = 0

RECURSIVE FrozenBlocks(_, _)
\* get_data, frozen branch: every raw array that is present, in role order
FrozenBlocks(s, k) ==
    IF k > Len(Roles) THEN <<>>
    ELSE (IF s[RawAttr[Roles[k]]].isNone THEN <<>> ELSE <<s[RawAttr[Roles[k]]]>>)
         \o FrozenBlocks(s, k + 1)

\* get_data: the list of column blocks of the clean readings
CleanBlocks(s) ==
    IF s.frozen_sensor_config THEN FrozenBlocks(s, 1) ELSE ReadingBlocks(s, 1)

CleanDefined(s) ==
    /\ s.frozen_sensor_config \/ ReadingsDefined(s)
    /\ CanHCat(CleanBlocks(s))

\* get_data: the columns of the pump state and valve state sensors
StateSensorsIdx(s) ==
    {GetIndexOfReading(s.sensor_config, "pump_state", s.sensor_config.pump_state_sensors[k]) :
        k \in 1..Len(s.sensor_config.pump_state_sensors)}
    \cup
    {GetIndexOfReading(s.sensor_config, "valve_state", s.sensor_config.valve_state_sensors[k]) :
        k \in 1..Len(s.sensor_config.valve_state_sensors)}

\* get_data: sensor noise, under the draw d, on every column outside the mask
\* of state sensors
ApplyNoiseDraw(s, m, d) ==
    Arr(m.dims,
        [r \in 1..Len(m.rows) |->
            [c \in 1..m.dims[1] |->
                IF c \in StateSensorsIdx(s) THEN m.rows[r][c]
                ELSE NoiseApplyDraw(s.sensor_noise, m.rows[r][c], d)]])

\* get_data: sensor noise on every column outside the mask of state sensors
ApplyNoise(s, m) == ApplyNoiseDraw(s, m, Draw0)

\* sensor_readings[:, idx] = f(sensor_readings[:, idx], time); the index None
\* (NoIdx) selects the whole matrix with an added axis
ApplyEvent(m, p, time) ==
    LET col(c) == [r \in 1..Len(m.rows) |-> m.rows[r][c]]
    IN  Arr(m.dims,
            [r \in 1..Len(m.rows) |->
                [c \in 1..m.dims[1] |->
                    IF p.idx = NoIdx \/ p.idx = c
                    THEN EventApply(p.ev, col(c), time)[r]
                    ELSE m.rows[r][c]]])

RECURSIVE ApplyEvents(_, _, _)
ApplyEvents(m, plan, time) ==
    IF plan = <<>> THEN m
    ELSE ApplyEvents(ApplyEvent(m, Head(plan), time), Tail(plan), time)

\* the outcome of get_data: "ok" or the error it raises
GetDataOutcome(s) ==
    IF ~CleanDefined(s) THEN "ValueError"
    ELSE LET n == SumCols(CleanBlocks(s))
         IN  IF \E c \in StateSensorsIdx(s) : c > n THEN "IndexError"
             ELSE IF \E k \in 1..Len(s.apply_sensor_reading_events) :
                         s.apply_sensor_reading_events[k].idx > n
             THEN "IndexError"
             ELSE "ok"

\* the matrix get_data computes, under the noise draw d, from the raw arrays,
\* the noise and the plan
GetDataMatrixDraw(s, d) ==
    ApplyEvents(ApplyNoiseDraw(s, HCat(CleanBlocks(s)), d), s.apply_sensor_reading_events,
                s.sensor_readings_time)

\* the matrix get_data computes from the raw arrays, the noise and the plan
GetDataMatrix(s) == GetDataMatrixDraw(s, Draw0)

\* get_data under the noise draw d: caches a copy of the final readings and
\* returns them
GetDataDraw(s, d) ==
    IF GetDataOutcome(s) = "ok"
    THEN [st |-> [s EXCEPT !.sensor_readings = GetDataMatrixDraw(s, d)], res |-> "ok",
          ret |-> GetDataMatrixDraw(s, d)]
    ELSE [st |-> s, res |-> GetDataOutcome(s), ret |-> None]

\* get_data: caches a copy of the final readings and returns them
GetData(s) == GetDataDraw(s, Draw0)

(***************************************************************************)
(* The quantity-specific getters get_data_pressures, ..., one per role.    *)
(* The argument is [kind, locs]: kind "default" is sensor_locations=None,  *)
(* kind "locations" a list of sensor ids (for a species role a dictionary  *)
(* species -> ids, as a sequence of pairs), kind "not_list" any other type.*)
(***************************************************************************)
GetterName ==
    [pressure |-> "get_data_pressures", flow |-> "get_data_flows",
     demand |-> "get_data_demands", node_quality |-> "get_data_nodes_quality",
     link_quality |-> "get_data_links_quality",
     valve_state |-> "get_data_valves_state", pump_state |-> "get_data_pumps_state",
     tank_volume |-> "get_data_tanks_water_volume",
     surface_species |-> "get_data_surface_species_concentration",
     bulk_species_node |-> "get_data_bulk_species_node_concentration",
     bulk_species_link |-> "get_data_bulk_species_link_concentration"]

\* the attribute of the sensor configuration in which a species getter looks
\* up a requested species
GetterSpeciesAttr ==
    [surface_species |-> "surface_species_sensors",
     bulk_species_node |-> "bulk_species_sensors",
     bulk_species_link |-> "bulk_species_link_sensors"]

\* key in dict
HasKey(d, key) == \E i \in 1..Len(d) : d[i][1] = key

\* dict[key]
Lookup(d, key) == d[CHOOSE i \in 1..Len(d) : d[i][1] = key][2]

\* item in list
InList(l, item) == \E i \in 1..Len(l) : l[i] = item

\* the check of the requested locations in a getter of a list role
CheckLocations(cfg, role, locs) ==
    IF \E i \in 1..Len(locs) : ~InList(cfg[SensorsAttr[role]], locs[i])
    THEN "ValueError" ELSE "ok"

RECURSIVE CheckSpeciesLocations(_, _, _)
\* the loop over the requested species in a getter of a species role; reading
\* an attribute the sensor configuration does not have raises AttributeError
CheckSpeciesLocations(cfg, role, locs) ==
    IF locs = <<>> THEN "ok"
    ELSE LET species_id == Head(locs)[1]
         IN  IF GetterSpeciesAttr[role] \notin DOMAIN cfg THEN "AttributeError"
             ELSE IF ~HasKey(cfg[GetterSpeciesAttr[role]], species_id) THEN "ValueError"
             ELSE IF ~HasKey(cfg[SensorsAttr[role]], species_id) THEN "KeyError"
             ELSE IF \E j \in 1..Len(Head(locs)[2]) :
                        ~InList(Lookup(cfg[SensorsAttr[role]], species_id), Head(locs)[2][j])
             THEN "ValueError"
             ELSE CheckSpeciesLocations(cfg, role, Tail(locs))

\* the check of the argument of a getter
CheckArg(cfg, role, a) ==
    IF a.kind = "default" THEN "ok"
    ELSE IF a.kind = "not_list" THEN "TypeError"
    ELSE IF role \in SpeciesRoles THEN CheckSpeciesLocations(cfg, role, a.locs)
    ELSE CheckLocations(cfg, role, a.locs)

\* the sensors a getter reads: those requested or, by default, all of the role
RequestedSensors(cfg, role, a) ==
    IF a.kind = "default" THEN RoleSensors(cfg, role)
    ELSE IF role \in SpeciesRoles THEN FlattenSpecies(a.locs)
    ELSE a.locs

\* a getter that would call get_data whether or not readings are cached
GetDataOfDrawRecomputes(s, role, a, d) ==
    LET cfg == s.sensor_config
        chk == CheckArg(cfg, role, a)
        locs == RequestedSensors(cfg, role, a)
        g == GetDataDraw(s, d)
        idx == [k \in 1..Len(locs) |-> GetIndexOfReading(cfg, role, locs[k])]
    IN  IF cfg[SensorsAttr[role]] = <<>>
        THEN [st |-> s, res |-> "ValueError", ret |-> None]
        ELSE IF chk # "ok" THEN [st |-> s, res |-> chk, ret |-> None]
        ELSE IF g.res # "ok" THEN [st |-> s, res |-> g.res, ret |-> None]
        ELSE IF \E k \in 1..Len(idx) : idx[k] > g.st.sensor_readings.dims[1]
        THEN [st |-> g.st, res |-> "IndexError", ret |-> None]
        ELSE [st |-> g.st, res |-> "ok", ret |-> TakeCols(g.st.sensor_readings, idx)]

\* get_data_<role>(sensor_locations), d being the noise draw of the get_data
\* call it makes when no readings are cached
GetDataOfDraw(s, role, a, d) ==
    LET cfg == s.sensor_config
        chk == CheckArg(cfg, role, a)
        locs == RequestedSensors(cfg, role, a)
        g == IF s.sensor_readings.isNone THEN GetDataDraw(s, d)
             ELSE [st |-> s, res |-> "ok", ret |-> None]
        idx == [k \in 1..Len(locs) |-> GetIndexOfReading(cfg, role, locs[k])]
    IN  IF cfg[SensorsAttr[role]] = <<>>
        THEN [st |-> s, res |-> "ValueError", ret |-> None]
        ELSE IF chk # "ok" THEN [st |-> s, res |-> chk, ret |-> None]
        ELSE IF g.res # "ok" THEN [st |-> s, res |-> g.res, ret |-> None]
        ELSE IF \E k \in 1..Len(idx) : idx[k] > g.st.sensor_readings.dims[1]
        THEN [st |-> g.st, res |-> "IndexError", ret |-> None]
        ELSE [st |-> g.st, res |-> "ok", ret |-> TakeCols(g.st.sensor_readings, idx)]

\* get_data_<role>(sensor_locations)
GetDataOf(s, role, a) == GetDataOfDraw(s, role, a, Draw0)

(***************************************************************************)
(* get_attributes: the constructor arguments that rebuild the instance.    *)
(***************************************************************************)
AttributesOf(s) ==
    [sensor_config |-> s.sensor_config,
     frozen_sensor_config |-> s.frozen_sensor_config,
     sensor_noise |-> s.sensor_noise,
     sensor_faults |-> <<>>,
     sensor_reading_attacks |-> <<>>,
     sensor_reading_events |-> s.sensor_reading_events,
     pressure_data_raw |-> s.pressure_data_raw,
     flow_data_raw |-> s.flow_data_raw,
     demand_data_raw |-> s.demand_data_raw,
     node_quality_data_raw |-> s.node_quality_data_raw,
     link_quality_data_raw |-> s.link_quality_data_raw,
     sensor_readings_time |-> s.sensor_readings_time,
     pumps_state_data_raw |-> s.pumps_state_data_raw,
     valves_state_data_raw |-> s.valves_state_data_raw,
     tanks_volume_data_raw |-> s.tanks_volume_data_raw,
     surface_species_concentration_raw |-> s.surface_species_concentration_raw,
     bulk_species_node_concentration_raw |-> s.bulk_species_node_concentration_raw,
     bulk_species_link_concentration_raw |-> s.bulk_species_link_concentration_raw,
     pump_energy_usage_data |-> s.pump_energy_usage_data,
     pump_efficiency_data |-> s.pump_efficiency_data]

(***************************************************************************)
(* The mutators.  Each returns [st |-> the instance afterwards, res |->    *)
(* "ok" or the error raised].                                              *)
(***************************************************************************)
\* change_sensor_config(sensor_config)
ChangeSensorConfig(s, cfg) ==
    IF s.frozen_sensor_config THEN [st |-> s, res |-> "RuntimeError"]
    ELSE [st |-> ReInit([s EXCEPT !.sensor_config = cfg]), res |-> "ok"]

\* the setter of the property sensor_config
SetSensorConfig(s, cfg) ==
    IF s.frozen_sensor_config THEN [st |-> s, res |-> "RuntimeError"]
    ELSE ChangeSensorConfig(s, cfg)

\* change_sensor_noise(sensor_noise); None is no instance of SensorNoise
ChangeSensorNoise(s, noise) ==
    IF noise = "None" THEN [st |-> s, res |-> "TypeError"]
    ELSE [st |-> ReInit([s EXCEPT !.sensor_noise = noise]), res |-> "ok"]

\* change_sensor_faults that would replace the whole list of events
ChangeSensorFaultsDiscardsAll(s, faults) ==
    IF \E k \in 1..Len(faults) : faults[k].cls # "SensorFault"
    THEN [st |-> s, res |-> "TypeError"]
    ELSE [st |-> ReInit([s EXCEPT !.sensor_reading_events = faults]), res |-> "ok"]

\* change_sensor_faults(sensor_faults)
ChangeSensorFaults(s, faults) ==
    IF \E k \in 1..Len(faults) : faults[k].cls # "SensorFault"
    THEN [st |-> s, res |-> "TypeError"]
    ELSE [st |-> ReInit([s EXCEPT !.sensor_reading_events =
                            FilterNotClass(s.sensor_reading_events, "SensorFault")
                            \o faults]),
          res |-> "ok"]

\* change_sensor_reading_attacks(sensor_reading_attacks)
ChangeSensorReadingAttacks(s, attacks) ==
    IF \E k \in 1..Len(attacks) : attacks[k].cls # "SensorReadingAttack"
    THEN [st |-> s, res |-> "TypeError"]
    ELSE [st |-> ReInit([s EXCEPT !.sensor_reading_events =
                            FilterNotClass(s.sensor_reading_events, "SensorReadingAttack")
                            \o attacks]),
          res |-> "ok"]

\* change_sensor_reading_events(sensor_reading_events)
ChangeSensorReadingEvents(s, events) ==
    [st |-> ReInit([s EXCEPT !.sensor_reading_events = events]), res |-> "ok"]

(***************************************************************************)
(* join                                                                    *)
(***************************************************************************)
NetworkAttrs ==
    <<"nodes", "links", "valves", "pumps", "tanks", "bulk_species", "surface_species">>

\* the checks join makes before it writes anything
JoinAccepts(s, o) ==
    /\ s.frozen_sensor_config = o.frozen_sensor_config
    /\ NpAllEqual(s.sensor_readings_time, o.sensor_readings_time)
    /\ ~AnyZipDiffers(s.sensor_reading_events, o.sensor_reading_events)
    /\ \A k \in 1..Len(NetworkAttrs) :
          s.sensor_config[NetworkAttrs[k]] = o.sensor_config[NetworkAttrs[k]]

\* a block of join that would add other's sensors to those of self whenever
\* other has the array
AdoptAppendingSensors(s, o, attr, dst, src) ==
    IF ~o[attr].isNone
    THEN [s EXCEPT ![attr] = o[attr],
                   !.sensor_config = [@ EXCEPT ![dst] = @ \o o.sensor_config[src]]]
    ELSE s

\* one "if self.X is None and other.X is not None" block of join: adopt the
\* array and assign other's sensors attribute src to self's attribute dst
Adopt(s, o, attr, dst, src) ==
    IF s[attr].isNone /\ ~o[attr].isNone
    THEN [s EXCEPT ![attr] = o[attr],
                   !.sensor_config = [@ EXCEPT ![dst] = o.sensor_config[src]]]
    ELSE s

\* the same block for the pump arrays, which have no sensors
AdoptPlain(s, o, attr) ==
    IF s[attr].isNone /\ ~o[attr].isNone THEN [s EXCEPT ![attr] = o[attr]] ELSE s

\* the sensors attribute join assigns when it adopts the link quality
LinkQualityJoinAttr == "quality_node_sensors"

\* the blocks of join in program order
JoinBlocks(s, o) ==
    LET s1 == Adopt(s, o, "pressure_data_raw", "pressure_sensors", "pressure_sensors")
        s2 == Adopt(s1, o, "flow_data_raw", "flow_sensors", "flow_sensors")
        s3 == Adopt(s2, o, "demand_data_raw", "demand_sensors", "demand_sensors")
        s4 == Adopt(s3, o, "node_quality_data_raw", "quality_node_sensors",
                    "quality_node_sensors")
        s5 == Adopt(s4, o, "link_quality_data_raw", LinkQualityJoinAttr,
                    LinkQualityJoinAttr)
        s6 == Adopt(s5, o, "valves_state_data_raw", "valve_state_sensors",
                    "valve_state_sensors")
        s7 == Adopt(s6, o, "pumps_state_data_raw", "pump_state_sensors",
                    "pump_state_sensors")
        s8 == Adopt(s7, o, "tanks_volume_data_raw", "tank_volume_sensors",
                    "tank_volume_sensors")
        s9 == Adopt(s8, o, "bulk_species_node_concentration_raw",
                    "bulk_species_node_sensors", "bulk_species_node_sensors")
        s10 == Adopt(s9, o, "bulk_species_link_concentration_raw",
                     "bulk_species_link_sensors", "bulk_species_link_sensors")
        s11 == Adopt(s10, o, "surface_species_concentration_raw",
                     "surface_species_sensors", "surface_species_sensors")
        s12 == AdoptPlain(s11, o, "pump_energy_usage_data")
    IN  AdoptPlain(s12, o, "pump_efficiency_data")

\* a join that would leave the event-application plan as it is
JoinKeepsPlan(s, o) ==
    IF ~JoinAccepts(s, o) THEN [st |-> s, res |-> "ValueError"]
    ELSE [st |-> JoinBlocks([s EXCEPT !.sensor_readings = None], o), res |-> "ok"]

\* join(other)
Join(s, o) ==
    IF ~JoinAccepts(s, o) THEN [st |-> s, res |-> "ValueError"]
    ELSE [st |-> ReInit(JoinBlocks([s EXCEPT !.sensor_readings = None], o)),
          res |-> "ok"]

(***************************************************************************)
(* concatenate                                                             *)
(***************************************************************************)
\* faulty checks of concatenate that compare the event lists pairwise only
ConcatenateAcceptsZipOnly(s, o) ==
    /\ s.sensor_config = o.sensor_config
    /\ s.frozen_sensor_config = o.frozen_sensor_config
    /\ ~AnyZipDiffers(s.sensor_reading_events, o.sensor_reading_events)

\* the checks concatenate makes before it writes anything
ConcatenateAccepts(s, o) ==
    /\ s.sensor_config = o.sensor_config
    /\ s.frozen_sensor_config = o.frozen_sensor_config
    /\ Len(s.sensor_reading_events) = Len(o.sensor_reading_events)
    /\ ~AnyZipDiffers(s.sensor_reading_events, o.sensor_reading_events)

\* the arrays concatenate appends to, in program order
ConcatenateAttrs ==
    <<"pressure_data_raw", "flow_data_raw", "demand_data_raw", "node_quality_data_raw",
      "link_quality_data_raw", "pumps_state_data_raw", "valves_state_data_raw",
      "tanks_volume_data_raw", "surface_species_concentration_raw",
      "bulk_species_node_concentration_raw", "bulk_species_link_concentration_raw",
      "pump_energy_usage_data", "pump_efficiency_data">>

RECURSIVE ConcatenateFrom(_, _, _)
\* the blocks "if self.X is not None: self.X = np.concatenate((self.X, other.X))"
\* from the k-th on; numpy raises a ValueError when other.X is None or the
\* trailing dimensions differ, and the blocks before it have taken effect
ConcatenateFrom(s, o, k) ==
    IF k > Len(ConcatenateAttrs) THEN [st |-> s, res |-> "ok"]
    ELSE LET attr == ConcatenateAttrs[k]
         IN  IF s[attr].isNone THEN ConcatenateFrom(s, o, k + 1)
             ELSE IF ~CanVCat(s[attr], o[attr]) THEN [st |-> s, res |-> "ValueError"]
             ELSE ConcatenateFrom([s EXCEPT ![attr] = VCat(s[attr], o[attr])], o, k + 1)

\* a faulty concatenate that appends to the arrays and not to the time vector
ConcatenateWritesTimeKept(s, o) ==
    ConcatenateFrom([s EXCEPT !.sensor_readings = None], o, 1)

\* the writes of concatenate: the cache, the time vector, then the arrays
ConcatenateWrites(s, o) ==
    ConcatenateFrom([s EXCEPT !.sensor_readings = None,
                              !.sensor_readings_time = @ \o o.sensor_readings_time],
                    o, 1)

\* an argument that is no instance of ScadaData
NotAScadaData == [type |-> "dict"]

\* isinstance(other, ScadaData)
IsScadaData(o) == "sensor_config" \in DOMAIN o

\* concatenate(other)
Concatenate(s, o) ==
    IF ~IsScadaData(o) THEN [st |-> s, res |-> "TypeError"]
    ELSE IF ~ConcatenateAccepts(s, o) THEN [st |-> s, res |-> "ValueError"]
    ELSE ConcatenateWrites(s, o)

(***************************************************************************)
(* The inputs: networks, sensor configurations, raw data of a simulation   *)
(* run, events, and the pairs (self, other) of constructed instances.      *)
(***************************************************************************)
NetA ==
    [nodes |-> <<"n1", "n2">>, links |-> <<"l1", "l2">>, valves |-> <<"v1", "v2">>,
     pumps |-> <<"p1", "p2">>, tanks |-> <<"t1", "t2">>, bulk_species |-> <<"b1">>,
     surface_species |-> <<"s1">>]

\* the networks that differ from NetA in exactly one element list
NetVariants ==
    {[NetA EXCEPT ![NetworkAttrs[k]] = @ \o <<"x">>] : k \in 1..Len(NetworkAttrs)}

RoleSet == {Roles[k] : k \in 1..Len(Roles)}

\* a sensor configuration of network net with one sensor, at the loc-th
\* element, for every role in roles
SensorCfg(net, roles, loc) ==
    LET one(role) ==
            IF role \notin roles THEN <<>>
            ELSE IF role \in SpeciesRoles
            THEN << <<net[SpeciesAttr[role]][1], <<net[ElementsAttr[role]][loc]>> >> >>
            ELSE <<net[ElementsAttr[role]][loc]>>
    IN  [nodes |-> net.nodes, links |-> net.links, valves |-> net.valves,
         pumps |-> net.pumps, tanks |-> net.tanks, bulk_species |-> net.bulk_species,
         surface_species |-> net.surface_species,
         pressure_sensors |-> one("pressure"), flow_sensors |-> one("flow"),
         demand_sensors |-> one("demand"),
         quality_node_sensors |-> one("node_quality"),
         quality_link_sensors |-> one("link_quality"),
         valve_state_sensors |-> one("valve_state"),
         pump_state_sensors |-> one("pump_state"),
         tank_volume_sensors |-> one("tank_volume"),
         surface_species_sensors |-> one("surface_species"),
         bulk_species_node_sensors |-> one("bulk_species_node"),
         bulk_species_link_sensors |-> one("bulk_species_link")]

\* the raw array a simulation run number seed of n time steps yields for a
\* role: every entry differs by role, run, row and column
RawOfRun(net, role, seed, n) ==
    LET v(r, c) == RoleIdx(role) * 1000 + seed * 100 + r * 10 + c
        elems == Len(net[ElementsAttr[role]])
    IN  IF role \in SpeciesRoles
        THEN Arr(<<Len(net[SpeciesAttr[role]]), elems>>,
                 [r \in 1..n |-> [sp \in 1..Len(net[SpeciesAttr[role]]) |->
                                     [c \in 1..elems |-> v(r, c) + 3 * sp]]])
        ELSE Arr(<<elems>>, [r \in 1..n |-> [c \in 1..elems |-> v(r, c)]])

\* the pump energy usage and pump efficiency of a run
PumpDataOfRun(net, attr, seed, n) ==
    LET base == IF attr = "pump_energy_usage_data" THEN 12000 ELSE 13000
    IN  Arr(<<Len(net.pumps)>>,
            [r \in 1..n |-> [c \in 1..Len(net.pumps) |-> base + seed * 100 + r * 10 + c]])

\* the roles whose raw array is in a set of attributes
RolesOf(present) == {role \in RoleSet : RawAttr[role] \in present}

\* the arguments of the constructor call described by the parameters p
Args(p) ==
    LET n == Len(p.time)
        raw(role) == IF RawAttr[role] \in p.present
                     THEN RawOfRun(p.net, role, p.seed, n) ELSE None
        pump(attr) == IF attr \in p.present
                      THEN PumpDataOfRun(p.net, attr, p.seed, n) ELSE None
    IN    [sensor_config |-> SensorCfg(p.net, p.sroles, p.loc),
           sensor_readings_time |-> p.time,
           pressure_data_raw |-> raw("pressure"),
           flow_data_raw |-> raw("flow"),
           demand_data_raw |-> raw("demand"),
           node_quality_data_raw |-> raw("node_quality"),
           link_quality_data_raw |-> raw("link_quality"),
           pumps_state_data_raw |-> raw("pump_state"),
           valves_state_data_raw |-> raw("valve_state"),
           tanks_volume_data_raw |-> raw("tank_volume"),
           surface_species_concentration_raw |-> raw("surface_species"),
           bulk_species_node_concentration_raw |-> raw("bulk_species_node"),
           bulk_species_link_concentration_raw |-> raw("bulk_species_link"),
           pump_energy_usage_data |-> pump("pump_energy_usage_data"),
           pump_efficiency_data |-> pump("pump_efficiency_data"),
           sensor_faults |-> p.faults,
           sensor_reading_attacks |-> p.attacks,
           sensor_reading_events |-> p.events,
           sensor_noise |-> p.noise,
           frozen_sensor_config |-> p.frozen]

\* the events of the inputs: a fault, an attack and a generic event on the
\* pressure sensor at n1
F1 == [cls |-> "SensorFault", sensor_type |-> "pressure", sensor_id |-> "n1",
       fn |-> "add"]
A1 == [cls |-> "SensorReadingAttack", sensor_type |-> "pressure", sensor_id |-> "n1",
       fn |-> "dbl"]
G1 == [cls |-> "SensorReadingEvent", sensor_type |-> "pressure", sensor_id |-> "n1",
       fn |-> "zero"]

\* a generic event whose sensor type is none of the sensor types
X1 == [cls |-> "SensorReadingEvent", sensor_type |-> "unknown", sensor_id |-> "n1",
       fn |-> "add"]

\* the time vectors: every sequence of time stamps of length at most MaxLen
Times == UNION {[1..n -> TimeVals] : n \in 0..MaxLen}

\* the sets of arrays a constructor call provides
PresentSets == {{}} \cup {{attr} : attr \in ArrayAttrs} \cup {ArrayAttrs}

\* the default parameters: a run of two time steps on NetA
P0 ==
    [net |-> NetA, sroles |-> {}, loc |-> 1, time |-> <<0, 1>>, present |-> {},
     seed |-> 1, faults |-> <<>>, attacks |-> <<>>, events |-> <<>>,
     noise |-> "None", frozen |-> FALSE]

\* pairs for join: other comes from a second run with its own sensors
JoinPairs ==
    {<<[P0 EXCEPT !.present = ps, !.sroles = RolesOf(ps), !.frozen = fz],
       [P0 EXCEPT !.present = po, !.sroles = RolesOf(po), !.frozen = fz,
                  !.loc = 2, !.seed = 2]>> :
        ps \in {{}, {"node_quality_data_raw"}, ArrayAttrs},
        po \in PresentSets, fz \in BOOLEAN}

\* pairs for concatenate: the same sensor configuration, a second run
ConcatenatePairs ==
    {<<[P0 EXCEPT !.present = ps, !.sroles = RolesOf(ps), !.frozen = fz],
       [P0 EXCEPT !.present = po, !.sroles = RolesOf(ps), !.frozen = fz,
                  !.seed = 2]>> :
        ps \in PresentSets,
        po \in {{}, {"pressure_data_raw"}, {"pump_energy_usage_data"}, ArrayAttrs},
        fz \in BOOLEAN}

\* pairs that differ in their time vectors
TimePairs ==
    {<<[P0 EXCEPT !.present = ps, !.sroles = {"pressure"}, !.time = ts],
       [P0 EXCEPT !.present = {"pressure_data_raw", "pump_efficiency_data"},
                  !.sroles = {"pressure"}, !.time = to, !.seed = 2]>> :
        ps \in {{}, {"pressure_data_raw", "pump_efficiency_data"}},
        ts \in Times, to \in Times}

\* pairs that differ in their events and noise
EventPairs ==
    {<<[P0 EXCEPT !.present = {"pressure_data_raw"}, !.sroles = {"pressure"},
                  !.faults = fs, !.attacks = as, !.events = es],
       [P0 EXCEPT !.present = {"pressure_data_raw", "flow_data_raw"},
                  !.sroles = {"pressure"}, !.faults = fo, !.attacks = ao,
                  !.events = eo, !.seed = 2]>> :
        fs \in {<<>>, <<F1>>}, as \in {<<>>, <<A1>>}, es \in {<<>>, <<G1>>},
        fo \in {<<>>, <<F1>>}, ao \in {<<>>, <<A1>>}, eo \in {<<>>, <<G1>>}}

\* pairs that differ in the network or in the frozen flag
NetworkPairs ==
    {<<[P0 EXCEPT !.frozen = fs],
       [P0 EXCEPT !.present = {"pressure_data_raw"}, !.sroles = {"pressure"},
                  !.net = net, !.frozen = fo, !.seed = 2]>> :
        net \in NetVariants \cup {NetA}, fs \in BOOLEAN, fo \in BOOLEAN}

Pairs == JoinPairs \cup ConcatenatePairs \cup TimePairs \cup EventPairs \cup NetworkPairs

\* the sensor roles of the instances whose readings are computed, each with
\* one of its roles
ReadingSensorRoles ==
    {<<RoleSet, "flow">>, <<{"pressure", "flow"}, "pressure">>,
     <<{"valve_state", "pump_state", "tank_volume"}, "valve_state">>,
     <<{"pressure", "pump_state"}, "pressure">>,
     <<SpeciesRoles, "surface_species">>}

\* sensors and raw arrays of these instances: raw data for exactly the roles
\* with sensors, for all but one of them, and for every role; and no sensors
ReadingLayouts ==
    UNION {{<<sr[1], {RawAttr[r] : r \in sr[1]}>>,
            <<sr[1], {RawAttr[r] : r \in sr[1] \ {sr[2]}}>>,
            <<sr[1], ArrayAttrs>>} : sr \in ReadingSensorRoles}
    \cup {<<{}, {}>>, <<{}, ArrayAttrs>>}

\* the faults, attacks and generic events of these instances
ReadingEvents ==
    {<<<<>>, <<>>, <<>>>>, <<<<F1>>, <<A1>>, <<>>>>, <<<<>>, <<>>, <<X1>>>>,
     <<<<F1>>, <<A1>>, <<X1>>>>}

\* the constructor calls of these instances
ReadingParams ==
    {[P0 EXCEPT !.sroles = lay[1], !.present = lay[2], !.frozen = fz, !.noise = nz,
                !.faults = ev[1], !.attacks = ev[2], !.events = ev[3]] :
        lay \in ReadingLayouts, fz \in BOOLEAN, nz \in {"None", "noise1"},
        ev \in ReadingEvents}

\* the sensor locations asked of the getter of a role: the default, one
\* element of the network or one unknown id, and a value of another type
LocationInputs(net, role) ==
    {[kind |-> "default", locs |-> <<>>], [kind |-> "not_list", locs |-> <<>>]}
    \cup {[kind |-> "locations",
           locs |-> IF role \in SpeciesRoles THEN << <<net[SpeciesAttr[role]][1], <<id>> >> >>
                    ELSE <<id>>] : id \in {net[ElementsAttr[role]][1], "zz"}}
    \cup {[kind |-> "locations", locs |-> << <<sp, <<net[ElementsAttr[role]][1]>> >> >>] :
            sp \in IF role \in SpeciesRoles THEN {"zz"} ELSE {}}

\* the arguments of the mutators
NoiseInputs == {"None", "noise1"}
FaultInputs == {<<F1>>, <<A1>>}
AttackInputs == {<<A1>>}
EventInputs == {<<>>, <<G1, F1>>}
ConfigInputs(o) == {o.sensor_config}

(***************************************************************************)
(* The state machine: an instance self, a second instance other that is    *)
(* the argument of join and concatenate, the last call on self with its    *)
(* argument, its outcome and the value it returned, and whether readings   *)
(* were cached when that call was made; and which objects are shared:      *)
(* refs.ret is the attribute of self whose object the returned value is    *)
(* ("none" for a copy), refs.other the attributes of self whose object is  *)
(* also an attribute of other.                                             *)
(***************************************************************************)
VARIABLES self, other, op, res, hadCache, arg, ret, refs

vars == <<self, other, op, res, hadCache, arg, ret, refs>>

\* nothing is shared
NoRefs == [ret |-> "none", other |-> {}]

\* the argument of a call: its kind and, for a getter, the sensor locations
NoArg == [kind |-> "none", locs |-> <<>>]

\* the argument of join and concatenate
OtherArg(o) == [kind |-> IF IsScadaData(o) THEN "ScadaData" ELSE "dict", locs |-> <<>>]

Init ==
    /\ \E pair \in {pr \in Pairs : ConstructorAccepts(Args(pr[1]))
                                    /\ ConstructorAccepts(Args(pr[2]))} :
          /\ self = NewScadaData(Args(pair[1]))
          /\ other = NewScadaData(Args(pair[2]))
    /\ op = "init"
    /\ res = "ok"
    /\ hadCache = FALSE
    /\ arg = NoArg
    /\ ret = None
    /\ refs = NoRefs

\* the effect of a call on self with argument a: the instance afterwards, the
\* name of the call, its outcome, the value returned (None when the method
\* returns nothing or raises), whether readings were cached when it was made,
\* and the objects shared afterwards (a returned value is a new object
\* unless the call says otherwise)
Call(name, a, r) ==
    /\ self' = r.st
    /\ op' = name
    /\ res' = r.res
    /\ hadCache' = ~self.sensor_readings.isNone
    /\ arg' = a
    /\ ret' = IF "ret" \in DOMAIN r THEN r.ret ELSE None
    /\ refs' = [ret |-> IF "ref" \in DOMAIN r THEN r.ref ELSE "none",
                other |-> IF "shared" \in DOMAIN r THEN r.shared ELSE refs.other]

Returns(name, r) == Call(name, NoArg, r)

DoGetData ==
    /\ Returns("get_data", GetData(self))
    /\ UNCHANGED other

DoChangeSensorConfig ==
    /\ \E cfg \in ConfigInputs(other) :
          Returns("change_sensor_config", ChangeSensorConfig(self, cfg))
    /\ UNCHANGED other

DoSetSensorConfig ==
    /\ \E cfg \in ConfigInputs(other) :
          Returns("sensor_config", SetSensorConfig(self, cfg))
    /\ UNCHANGED other

DoChangeSensorNoise ==
    /\ \E noise \in NoiseInputs :
          Returns("change_sensor_noise", ChangeSensorNoise(self, noise))
    /\ UNCHANGED other

DoGetDataOf ==
    /\ \E role \in RoleSet : \E a \in LocationInputs(NetA, role) :
          Call(GetterName[role], a, GetDataOf(self, role, a))
    /\ UNCHANGED other

\* the argument of a mutator of the event list
EventsArg(events) == [kind |-> "events", locs |-> events]

DoChangeSensorFaults ==
    /\ \E faults \in FaultInputs :
          Call("change_sensor_faults", EventsArg(faults), ChangeSensorFaults(self, faults))
    /\ UNCHANGED other

DoChangeSensorReadingAttacks ==
    /\ \E attacks \in AttackInputs :
          Call("change_sensor_reading_attacks", EventsArg(attacks),
               ChangeSensorReadingAttacks(self, attacks))
    /\ UNCHANGED other

DoChangeSensorReadingEvents ==
    /\ \E events \in EventInputs :
          Call("change_sensor_reading_events", EventsArg(events),
               ChangeSensorReadingEvents(self, events))
    /\ UNCHANGED other

DoJoin ==
    /\ Call("join", OtherArg(other), Join(self, other))
    /\ UNCHANGED other

DoConcatenate ==
    /\ \/ /\ Len(self.sensor_readings_time) + Len(other.sensor_readings_time) <= MaxRows
          /\ Call("concatenate", OtherArg(other), Concatenate(self, other))
       \/ Call("concatenate", OtherArg(NotAScadaData), Concatenate(self, NotAScadaData))
    /\ UNCHANGED other

Next ==
    \/ DoGetData
    \/ DoChangeSensorConfig
    \/ DoSetSensorConfig
    \/ DoChangeSensorNoise
    \/ DoChangeSensorFaults
    \/ DoChangeSensorReadingAttacks
    \/ DoChangeSensorReadingEvents
    \/ DoJoin
    \/ DoConcatenate

Spec == Init /\ [][Next]_vars

(***************************************************************************)
(* The readings: instances over every layout of sensors and raw arrays,    *)
(* with and without noise, events and frozen configuration, under          *)
(* get_data and the quantity-specific getters.                             *)
(***************************************************************************)
InitReadings ==
    /\ \E p \in ReadingParams :
          /\ self = NewScadaData(Args(p))
          /\ other = NewScadaData(Args(p))
    /\ op = "init"
    /\ res = "ok"
    /\ hadCache = FALSE
    /\ arg = NoArg
    /\ ret = None
    /\ refs = NoRefs

NextReadings ==
    \/ DoGetData
    \/ DoGetDataOf

SpecReadings == InitReadings /\ [][NextReadings]_vars

(***************************************************************************)
(* Sharing: the values handed out by the properties, get_data and the      *)
(* getters, and the arrays adopted by join, under mutation in place by     *)
(* their holder.                                                           *)
(***************************************************************************)
\* the read-only properties of ScadaData that return an object
PropertyNames ==
    ArrayAttrs \cup {"sensor_readings_time", "sensor_config", "sensor_noise",
                     "sensor_faults", "sensor_reading_attacks", "sensor_reading_events"}

\* list(filter(lambda e: isinstance(e, cls), l))
FilterClass(l, cls) == SelectSeq(l, LAMBDA e : e.cls = cls)

\* the value a property reads
PropertyValue(s, name) ==
    CASE name = "sensor_faults" -> FilterClass(s.sensor_reading_events, "SensorFault")
      [] name = "sensor_reading_attacks" ->
            FilterClass(s.sensor_reading_events, "SensorReadingAttack")
      [] OTHER -> s[name]

\* a property that would return the attribute itself
GetPropertyNoCopy(s, name) ==
    [st |-> s, res |-> "ok", ret |-> PropertyValue(s, name),
     ref |-> IF name \in {"sensor_faults", "sensor_reading_attacks"} THEN "none" ELSE name]

\* a property of ScadaData: return deepcopy(self.__<name>)
GetProperty(s, name) ==
    [st |-> s, res |-> "ok", ret |-> PropertyValue(s, name), ref |-> "none"]

PropertyArg(name) == [kind |-> "property", locs |-> <<name>>]

\* the attributes self shares with other after join: every array and every
\* list of sensors is read through a property of other, which copies it
JoinShares(s, o) == {}

\* the kind of object a call returns
ReturnKind(name, a) ==
    IF name # "property" THEN "array"
    ELSE CASE a.locs[1] = "sensor_readings_time" -> "vector"
           [] a.locs[1] = "sensor_config" -> "config"
           [] a.locs[1] = "sensor_noise" -> "noise"
           [] a.locs[1] \in {"sensor_faults", "sensor_reading_attacks",
                             "sensor_reading_events"} -> "list"
           [] OTHER -> "array"

\* an object after its holder has changed it in place: array[0] = array[-1],
\* list.clear(), config.pressure_sensors = config.nodes, a changed noise;
\* None cannot be changed
MutatedValue(kind, v) ==
    CASE kind = "array" ->
            IF v.isNone THEN v
            ELSE Arr(v.dims, [r \in 1..Len(v.rows) |->
                                 IF r = 1 THEN v.rows[Len(v.rows)] ELSE v.rows[r]])
      [] kind = "vector" -> IF v = <<>> THEN v ELSE [v EXCEPT ![1] = v[Len(v)]]
      [] kind = "list" -> <<>>
      [] kind = "config" -> [v EXCEPT !.pressure_sensors = v.nodes]
      [] OTHER -> IF v = "None" THEN v ELSE "noise2"

\* the attributes of other that its holder changes in place
OtherMutations == {"flow_data_raw", "pump_efficiency_data", "sensor_config"}

\* two instances that join accepts, self with noise, a fault and an attack
SharingPairs ==
    {<<[P0 EXCEPT !.present = {"pressure_data_raw"}, !.sroles = {"pressure"},
                  !.faults = <<F1>>, !.attacks = <<A1>>, !.noise = nz, !.frozen = fz],
       [P0 EXCEPT !.present = po, !.sroles = RolesOf(po), !.faults = <<F1>>,
                  !.attacks = <<A1>>, !.frozen = fz, !.loc = 2, !.seed = 2]>> :
        nz \in {"None", "noise1"}, fz \in BOOLEAN,
        po \in {{"flow_data_raw"}, ArrayAttrs}}

InitSharing ==
    /\ \E pair \in SharingPairs :
          /\ self = NewScadaData(Args(pair[1]))
          /\ other = NewScadaData(Args(pair[2]))
    /\ op = "init"
    /\ res = "ok"
    /\ hadCache = FALSE
    /\ arg = NoArg
    /\ ret = None
    /\ refs = NoRefs

DoGetProperty ==
    /\ \E name \in PropertyNames :
          Call("property", PropertyArg(name), GetProperty(self, name))
    /\ UNCHANGED other

DoJoinSharing ==
    /\ Call("join", OtherArg(other),
            Join(self, other) @@ [shared |-> JoinShares(self, other)])
    /\ UNCHANGED other

\* the caller changes, in place, the value the last call returned
DoMutateReturned ==
    /\ op \in {"property", "get_data"} \cup {GetterName[role] : role \in RoleSet}
    /\ res = "ok"
    /\ LET kind == ReturnKind(op, arg)
       IN  Call("mutate_returned", [kind |-> "returned", locs |-> <<op>>],
                [st |-> IF refs.ret = "none" THEN self
                        ELSE [self EXCEPT ![refs.ret] = MutatedValue(kind, @)],
                 res |-> "ok", ret |-> MutatedValue(kind, ret), ref |-> refs.ret])
    /\ UNCHANGED other

\* after join, the holder of other changes one of its objects in place
DoMutateOther ==
    /\ op = "join"
    /\ res = "ok"
    /\ \E f \in OtherMutations :
          LET kind == IF f = "sensor_config" THEN "config" ELSE "array"
          IN  /\ other' = [other EXCEPT ![f] = MutatedValue(kind, @)]
              /\ Call("mutate_other", [kind |-> "attribute", locs |-> <<f>>],
                      [st |-> IF f \in refs.other
                              THEN [self EXCEPT ![f] = MutatedValue(kind, @)]
                              ELSE self,
                       res |-> "ok"])

NextSharing ==
    \/ DoGetData
    \/ DoGetDataOf
    \/ DoGetProperty
    \/ DoJoinSharing
    \/ DoMutateReturned
    \/ DoMutateOther

SpecSharing == InitSharing /\ [][NextSharing]_vars

(***************************************************************************)
(* Construction: constructor calls with every set of arrays, each array    *)
(* in turn with one row more or one row less than there are time steps.    *)
(***************************************************************************)
\* the array of the field attr that a run of n time steps yields
ArrayOfRun(attr, n) ==
    IF attr \in PumpAttrs THEN PumpDataOfRun(P0.net, attr, P0.seed, n)
    ELSE RawOfRun(P0.net, CHOOSE role \in RoleSet : RawAttr[role] = attr, P0.seed, n)

ConstructParams ==
    {[P0 EXCEPT !.present = ps, !.frozen = fz, !.sroles = RoleSet] :
        ps \in PresentSets, fz \in BOOLEAN}

\* the numbers of rows that differ from the number of time steps n
OtherRows(n) == {n - 1, n + 1}

\* the arguments of the constructor calls: well-shaped ones, ones in which a
\* single array has another number of rows, one with two such arrays and
\* one with an attack in the list of faults
ConstructInputs ==
    {Args(p) : p \in ConstructParams}
    \cup UNION {{[Args(p) EXCEPT ![f] = ArrayOfRun(f, m)] :
                    f \in p.present, m \in OtherRows(Len(p.time))} : p \in ConstructParams}
    \cup {[Args([P0 EXCEPT !.present = ArrayAttrs])
              EXCEPT !.flow_data_raw = ArrayOfRun("flow_data_raw", 3),
                     !.pump_efficiency_data = ArrayOfRun("pump_efficiency_data", 1)],
          Args([P0 EXCEPT !.faults = <<A1>>])}

ConstructArg(a) == [kind |-> "args", locs |-> a]

InitConstruct ==
    /\ self = NewScadaData(Args(P0))
    /\ other = NewScadaData(Args(P0))
    /\ op = "init"
    /\ res = "ok"
    /\ hadCache = FALSE
    /\ arg = NoArg
    /\ ret = None
    /\ refs = NoRefs

DoConstruct ==
    /\ \E a \in ConstructInputs : Call("__init__", ConstructArg(a), Construct(self, a))
    /\ UNCHANGED other

NextConstruct == DoConstruct

SpecConstruct == InitConstruct /\ [][NextConstruct]_vars

(***************************************************************************)
(* The readings under a noise whose perturbation differs from one get_data *)
(* call to the next: the same instances under get_data, the getters and    *)
(* change_sensor_noise, every get_data call with a noise draw of its own.  *)
(***************************************************************************)
\* the constructor calls of the instances: those of the readings that have
\* no generic event and not every raw array
LazyParams == {p \in ReadingParams : p.events = <<>> /\ p.present # ArrayAttrs}

InitLazy ==
    /\ \E p \in LazyParams :
          /\ self = NewScadaData(Args(p))
          /\ other = NewScadaData(Args(p))
    /\ op = "init"
    /\ res = "ok"
    /\ hadCache = FALSE
    /\ arg = NoArg
    /\ ret = None
    /\ refs = NoRefs

DoGetDataDraw ==
    /\ \E d \in NoiseDraws : Returns("get_data", GetDataDraw(self, d))
    /\ UNCHANGED other

DoGetDataOfDraw ==
    /\ \E role \in RoleSet : \E a \in LocationInputs(NetA, role) : \E d \in NoiseDraws :
          Call(GetterName[role], a, GetDataOfDraw(self, role, a, d))
    /\ UNCHANGED other

NextLazy ==
    \/ DoGetDataDraw
    \/ DoGetDataOfDraw
    \/ DoChangeSensorNoise

SpecLazy == InitLazy /\ [][NextLazy]_vars

(***************************************************************************)
(* Round trip: instances with sensors at the first or at the second        *)
(* element of the network, rebuilt from their attributes.                  *)
(***************************************************************************)
RoundTripParams == {[p EXCEPT !.loc = l] : p \in LazyParams, l \in {1, 2}}

InitRoundTrip ==
    /\ \E p \in RoundTripParams :
          /\ self = NewScadaData(Args(p))
          /\ other = NewScadaData(Args(p))
    /\ op = "init"
    /\ res = "ok"
    /\ hadCache = FALSE
    /\ arg = NoArg
    /\ ret = None
    /\ refs = NoRefs

\* ScadaData(**self.get_attributes()); the new instance takes the place of self
DoRebuild ==
    /\ Returns("rebuild", Construct(self, AttributesOf(self)))
    /\ UNCHANGED other

NextRoundTrip ==
    \/ DoGetData
    \/ DoRebuild

SpecRoundTrip == InitRoundTrip /\ [][NextRoundTrip]_vars

(***************************************************************************)
(* __eq__: pairs of instances that are equal or differ in one field.       *)
(***************************************************************************)
\* the shape of an array
Shape(a) == <<Len(a.rows)>> \o a.dims

\* element of a 2-d or 3-d array under broadcasting: an axis of length 1 is
\* read at its only index
Elem(a, i) ==
    LET r == IF Len(a.rows) = 1 THEN 1 ELSE i[1]
        c == IF a.dims[1] = 1 THEN 1 ELSE i[2]
    IN  IF Len(a.dims) = 1 THEN a.rows[r][c]
        ELSE a.rows[r][c][IF a.dims[2] = 1 THEN 1 ELSE i[3]]

\* np.all(a == b) for two attributes that are None or arrays of the same
\* rank: None == None is True; None == array compares None with every
\* element; array == array compares elementwise under broadcasting, and
\* shapes that do not broadcast make the comparison fail
NpAllEqualArrays(a, b) ==
    IF a.isNone /\ b.isNone THEN TRUE
    ELSE IF a.isNone \/ b.isNone
    THEN LET x == IF a.isNone THEN b ELSE a
         IN  \E k \in 1..Len(Shape(x)) : Shape(x)[k] = 0
    ELSE LET sa == Shape(a)
             sb == Shape(b)
             n(k) == IF sa[k] = 1 THEN sb[k] ELSE sa[k]
         IN  /\ Len(sa) = Len(sb)
             /\ \A k \in 1..Len(sa) : sa[k] = sb[k] \/ sa[k] = 1 \/ sb[k] = 1
             /\ \A i \in [1..Len(sa) -> 1..MaxRows] :
                   (\A k \in 1..Len(sa) : i[k] <= n(k)) => Elem(a, i) = Elem(b, i)

\* all(a == b for a, b in zip(l1, l2))
AllZipEqual(l1, l2) == ~AnyZipDiffers(l1, l2)

\* the conjunction ScadaData.__eq__ evaluates; the demand is compared with
\* the demand of the same instance
ScadaDataEquals(s, o) ==
    /\ s.sensor_config = o.sensor_config
    /\ s.frozen_sensor_config = o.frozen_sensor_config
    /\ s.sensor_noise = o.sensor_noise
    /\ AllZipEqual(s.sensor_reading_events, o.sensor_reading_events)
    /\ NpAllEqualArrays(s.pressure_data_raw, o.pressure_data_raw)
    /\ NpAllEqualArrays(s.flow_data_raw, o.flow_data_raw)
    /\ NpAllEqualArrays(s.demand_data_raw, s.demand_data_raw)
    /\ NpAllEqualArrays(s.node_quality_data_raw, o.node_quality_data_raw)
    /\ NpAllEqualArrays(s.link_quality_data_raw, o.link_quality_data_raw)
    /\ NpAllEqual(s.sensor_readings_time, o.sensor_readings_time)
    /\ NpAllEqualArrays(s.pumps_state_data_raw, o.pumps_state_data_raw)
    /\ NpAllEqualArrays(s.valves_state_data_raw, o.valves_state_data_raw)
    /\ NpAllEqualArrays(s.tanks_volume_data_raw, o.tanks_volume_data_raw)
    /\ NpAllEqualArrays(s.surface_species_concentration_raw,
                        o.surface_species_concentration_raw)
    /\ NpAllEqualArrays(s.bulk_species_node_concentration_raw,
                        o.bulk_species_node_concentration_raw)
    /\ NpAllEqualArrays(s.bulk_species_link_concentration_raw,
                        o.bulk_species_link_concentration_raw)
    /\ NpAllEqualArrays(s.pump_energy_usage_data, o.pump_energy_usage_data)
    /\ NpAllEqualArrays(s.pump_efficiency_data, o.pump_efficiency_data)

\* self == other
Eq(s, o) ==
    IF ~IsScadaData(o) THEN [st |-> s, res |-> "TypeError"]
    ELSE [st |-> s, res |-> "ok", ret |-> ScadaDataEquals(s, o)]

\* the arguments of an instance with every array, sensors of every role,
\* noise, a fault, an attack and a generic event
EqArgs ==
    Args([P0 EXCEPT !.present = ArrayAttrs, !.sroles = RoleSet, !.noise = "noise1",
                    !.faults = <<F1>>, !.attacks = <<A1>>, !.events = <<G1>>])

\* the arguments that differ from EqArgs in one field: an array absent or
\* with other values, another time vector, sensor configuration, noise or
\* frozen flag, an event less, an event more, another event
EqVariants ==
    {[EqArgs EXCEPT ![f] = None] : f \in ArrayAttrs}
    \cup {[EqArgs EXCEPT ![f] = MutatedValue("array", @)] : f \in ArrayAttrs}
    \cup {[EqArgs EXCEPT !.sensor_readings_time = <<0, 2>>],
          [EqArgs EXCEPT !.sensor_config = SensorCfg(P0.net, RoleSet, 2)],
          [EqArgs EXCEPT !.sensor_noise = "None"],
          [EqArgs EXCEPT !.frozen_sensor_config = TRUE],
          [EqArgs EXCEPT !.sensor_reading_events = <<>>],
          [EqArgs EXCEPT !.sensor_reading_events = <<G1, X1>>],
          [EqArgs EXCEPT !.sensor_reading_events = <<X1>>]}

\* an instance and itself, and an instance and each of its variants, in
\* both orders
EqPairs ==
    {<<EqArgs, EqArgs>>}
    \cup {<<EqArgs, v>> : v \in EqVariants} \cup {<<v, EqArgs>> : v \in EqVariants}
    \cup {<<v, v>> : v \in EqVariants}

InitEq ==
    /\ \E pair \in EqPairs :
          /\ self = NewScadaData(pair[1])
          /\ other = NewScadaData(pair[2])
    /\ op = "init"
    /\ res = "ok"
    /\ hadCache = FALSE
    /\ arg = NoArg
    /\ ret = None
    /\ refs = NoRefs

DoEq ==
    /\ \/ Call("__eq__", OtherArg(other), Eq(self, other))
       \/ Call("__eq__", OtherArg(NotAScadaData), Eq(self, NotAScadaData))
    /\ UNCHANGED other

NextEq ==
    \/ DoEq
    \/ DoGetData

SpecEq == InitEq /\ [][NextEq]_vars

(***************************************************************************)
(* The plan: instances whose events are about a sensor that only join or a *)
(* new sensor configuration brings, under every mutator.                   *)
(***************************************************************************)
\* a fault on the pressure sensor at n2
F2 == [cls |-> "SensorFault", sensor_type |-> "pressure", sensor_id |-> "n2",
       fn |-> "add"]

\* self without pressure data and sensor, other with the pressure sensor n2
PlanPairs ==
    {<<[P0 EXCEPT !.present = ps, !.sroles = RolesOf(ps), !.faults = fs, !.frozen = fz],
       [P0 EXCEPT !.present = po, !.sroles = RolesOf(po), !.faults = fs, !.frozen = fz,
                  !.loc = 2, !.seed = 2]>> :
        ps \in {{}, {"flow_data_raw"}},
        po \in {{"pressure_data_raw"}, {"pressure_data_raw", "flow_data_raw"}},
        fs \in {<<>>, <<F2>>}, fz \in BOOLEAN}

InitPlan ==
    /\ \E pair \in PlanPairs :
          /\ self = NewScadaData(Args(pair[1]))
          /\ other = NewScadaData(Args(pair[2]))
    /\ op = "init"
    /\ res = "ok"
    /\ hadCache = FALSE
    /\ arg = NoArg
    /\ ret = None
    /\ refs = NoRefs

SpecPlan == InitPlan /\ [][Next]_vars

(***************************************************************************)
(* The exporters of scada_data_export.py.                                  *)
(***************************************************************************)
\* create_global_sensor_config: a new configuration on the elements of the
\* old one, with no species, and a sensor at every node, link, valve and
\* pump; tanks tells whether the configuration takes the assignment to
\* tank_level_sensors as its tank sensors
CreateGlobalSensorConfig(s, tanks) ==
    LET old == s.sensor_config
    IN  [nodes |-> old.nodes, links |-> old.links, valves |-> old.valves,
         pumps |-> old.pumps, tanks |-> old.tanks, bulk_species |-> <<>>,
         surface_species |-> <<>>,
         pressure_sensors |-> old.nodes, flow_sensors |-> old.links,
         demand_sensors |-> old.nodes,
         quality_node_sensors |-> old.nodes,
         quality_link_sensors |-> old.links,
         valve_state_sensors |-> old.valves,
         pump_state_sensors |-> old.pumps,
         tank_volume_sensors |-> IF tanks THEN old.tanks ELSE <<>>,
         surface_species_sensors |-> <<>>,
         bulk_species_node_sensors |-> <<>>,
         bulk_species_link_sensors |-> <<>>]

\* export after the type check and the swap: get_data, the column
\* description (get_data once more), the restoring change_sensor_config when
\* raw data is exported, then the write to the file
ExportReadings(s, raw, old, written) ==
    LET r1 == GetData(s)
        r2 == GetData(r1.st)
        r3 == IF raw THEN ChangeSensorConfig(r2.st, old) ELSE [st |-> r2.st, res |-> "ok"]
    IN  IF r1.res # "ok" THEN [st |-> r1.st, res |-> r1.res]
        ELSE IF r3.res # "ok" THEN [st |-> r3.st, res |-> r3.res]
        ELSE [st |-> r3.st, res |-> IF written THEN "ok" ELSE "OSError"]

\* export(scada_data) of ScadaDataNumpyExport, ScadaDataXlsxExport and
\* ScadaDataMatlabExport built with export_raw_data = raw
Export(s, raw, tanks, written) ==
    IF ~IsScadaData(s) THEN [st |-> s, res |-> "TypeError"]
    ELSE IF ~raw THEN ExportReadings(s, raw, s.sensor_config, written)
    ELSE LET r0 == ChangeSensorConfig(s, CreateGlobalSensorConfig(s, tanks))
         IN  IF r0.res # "ok" THEN [st |-> s, res |-> r0.res]
             ELSE ExportReadings(r0.st, raw, s.sensor_config, written)

ExportFormats == {"npz", "xlsx", "mat"}

\* the exporter called: its class and its export_raw_data
ExportArg(fmt, raw) == [kind |-> fmt, locs |-> <<>>, export_raw_data |-> raw]

DoExport ==
    /\ \E fmt \in ExportFormats : \E raw \in BOOLEAN : \E tanks \in BOOLEAN :
       \E written \in BOOLEAN :
          Call("export", ExportArg(fmt, raw), Export(self, raw, tanks, written))
    /\ UNCHANGED other

\* the instances exported: every layout of sensors and raw arrays, frozen
\* or not, without noise, without events or with a fault and an attack
ExportParams ==
    {p \in ReadingParams : p.noise = "None" /\ p.events = <<>>}

InitExport ==
    /\ \E p \in ExportParams :
          /\ self = NewScadaData(Args(p))
          /\ other = NewScadaData(Args(p))
    /\ op = "init"
    /\ res = "ok"
    /\ hadCache = FALSE
    /\ arg = NoArg
    /\ ret = None
    /\ refs = NoRefs

NextExport ==
    \/ DoExport
    \/ DoGetData

SpecExport == InitExport /\ [][NextExport]_vars

(***************************************************************************)
(* Properties.                                                             *)
(***************************************************************************)
Mutators ==
    {"change_sensor_config", "sensor_config", "change_sensor_noise",
     "change_sensor_faults", "change_sensor_reading_attacks",
     "change_sensor_reading_events", "join", "concatenate"}

\* every present array of s has as many rows as the time vector of s
RowsMatchTime(s) ==
    \A attr \in ArrayAttrs : s[attr].isNone \/ NRows(s[attr]) = Len(s.sensor_readings_time)

\* C1: cache coherence.  In every reachable state the cached readings are
\* absent or are exactly what get_data computes from the current raw arrays,
\* time vector, sensor configuration, noise and events; and every mutator
\* call that returns leaves the cache absent.
C1_CacheCoherent ==
    /\ \/ self.sensor_readings.isNone
       \/ /\ GetDataOutcome(self) = "ok"
          /\ self.sensor_readings = GetDataMatrix(self)
    /\ (op \in Mutators /\ res = "ok") => self.sensor_readings.isNone

\* C1 witness: join has returned on an instance that held cached readings
\* computed under noise and events, and adopted the flow data of other
C1_Witness ==
    /\ op = "join" /\ res = "ok" /\ hadCache
    /\ self.sensor_noise # "None"
    /\ Len(self.sensor_reading_events) > 0
    /\ ~self.flow_data_raw.isNone
    /\ self.sensor_readings.isNone

\* C2: invariant I1 as claimed, in every reachable state, also after a call
\* that raised: every present raw array has as many rows as
\* sensor_readings_time.
C2_RowsMatchTimeAlways == RowsMatchTime(self)

\* the sensor locations configured for every role
SensorLocations(s) == [role \in RoleSet |-> s.sensor_config[SensorsAttr[role]]]

\* C3: as claimed, once the sensor configuration is frozen no call changes
\* the sensor locations of any role, and change_sensor_config and the
\* sensor_config setter fail with a RuntimeError leaving the instance as it was.
C3_FrozenConfigNeverChanges ==
    [][self.frozen_sensor_config =>
          /\ SensorLocations(self') = SensorLocations(self)
          /\ op' \in {"change_sensor_config", "sensor_config"} =>
                (res' = "RuntimeError" /\ self' = self)]_vars

\* the place of an event class in the order faults, attacks, generic events
ClassRank(e) ==
    CASE e.cls = "SensorFault" -> 1
      [] e.cls = "SensorReadingAttack" -> 2
      [] OTHER -> 3

\* C4: as claimed, in every reachable state the event list holds all faults
\* first, then all attacks, then all generic events.
C4_FaultsAttacksEventsOrder ==
    \A i, j \in 1..Len(self.sensor_reading_events) :
        i < j => ClassRank(self.sensor_reading_events[i])
                 <= ClassRank(self.sensor_reading_events[j])

\* every sensor of the list a is in the list b
SensorsIncluded(a, b) == \A i \in 1..Len(a) : \E j \in 1..Len(b) : b[j] = a[i]

\* C5: as claimed, after join returns, for every sensor quantity that self
\* lacked and other has, self holds other's raw array and self's sensor
\* configuration includes other's sensors of that quantity.
C5_JoinAdoptsDataAndSensors ==
    [][(op' = "join" /\ res' = "ok") =>
          \A role \in RoleSet :
              (self[RawAttr[role]].isNone /\ ~other[RawAttr[role]].isNone) =>
                  /\ self'[RawAttr[role]] = other[RawAttr[role]]
                  /\ SensorsIncluded(other.sensor_config[SensorsAttr[role]],
                                     self'.sensor_config[SensorsAttr[role]])]_vars

\* C6: as claimed, join leaves alone every quantity self already has: its raw
\* array and its configured sensor locations are the same after the call.
C6_JoinKeepsPresentQuantities ==
    [][(op' = "join" /\ res' = "ok") =>
          \A role \in RoleSet :
              ~self[RawAttr[role]].isNone =>
                  /\ self'[RawAttr[role]] = self[RawAttr[role]]
                  /\ self'.sensor_config[SensorsAttr[role]]
                       = self.sensor_config[SensorsAttr[role]]]_vars

\* the two instances differ in the frozen flag, the time vector or an
\* element list of the network
JoinPreconditionBroken(s, o) ==
    \/ s.frozen_sensor_config # o.frozen_sensor_config
    \/ s.sensor_readings_time # o.sensor_readings_time
    \/ \E k \in 1..Len(NetworkAttrs) :
          s.sensor_config[NetworkAttrs[k]] # o.sensor_config[NetworkAttrs[k]]

\* C7: as claimed, join raises a ValueError whenever the instances differ in
\* frozen flag, time vector or element lists, and a join that raised has
\* written nothing.
C7_JoinRejectsBeforeWriting ==
    [][op' = "join" =>
          /\ JoinPreconditionBroken(self, other) => res' = "ValueError"
          /\ res' = "ValueError" => self' = self]_vars

\* C8: as claimed, join raises a ValueError whenever the two event lists are
\* not identical.
C8_JoinRejectsDifferentEvents ==
    [][(op' = "join"
        /\ self.sensor_reading_events # other.sensor_reading_events) =>
          res' = "ValueError"]_vars

\* C9: concatenate row growth.  When concatenate returns on an instance whose
\* arrays all have n rows, with an other of m rows, the time vector and every
\* present array of self are self's old rows followed by other's rows, n + m
\* in all, the cache is absent and readings computed next have n + m rows.
C9_ConcatenateRowGrowth ==
    [][(op' = "concatenate" /\ res' = "ok" /\ RowsMatchTime(self)
        /\ RowsMatchTime(other)) =>
          LET n == Len(self.sensor_readings_time)
              m == Len(other.sensor_readings_time)
          IN  /\ self'.sensor_readings_time
                   = self.sensor_readings_time \o other.sensor_readings_time
              /\ Len(self'.sensor_readings_time) = n + m
              /\ \A attr \in ArrayAttrs :
                    /\ self'[attr].isNone = self[attr].isNone
                    /\ ~self[attr].isNone =>
                          /\ self'[attr].rows = self[attr].rows \o other[attr].rows
                          /\ NRows(self'[attr]) = n + m
              /\ self'.sensor_readings.isNone
              /\ GetDataOutcome(self') = "ok" =>
                    NRows(GetData(self').st.sensor_readings) = n + m]_vars

\* C9 witness: concatenate has returned on an instance that held cached
\* readings, appended rows of other to the pressure and the pump efficiency
\* arrays, and readings can be computed from the result
C9_Witness ==
    /\ op = "concatenate" /\ res = "ok" /\ hadCache
    /\ ~self.pressure_data_raw.isNone /\ ~self.pump_efficiency_data.isNone
    /\ Len(other.sensor_readings_time) > 0
    /\ Len(self.sensor_readings_time) > Len(other.sensor_readings_time)
    /\ NRows(self.pressure_data_raw) = Len(self.sensor_readings_time)
    /\ GetDataOutcome(self) = "ok"

\* C10: as claimed, a concatenate that raised has changed neither the time
\* vector nor any array of self.
C10_ConcatenateFailsWithoutWriting ==
    [][(op' = "concatenate" /\ res' # "ok") =>
          /\ self'.sensor_readings_time = self.sensor_readings_time
          /\ \A attr \in ArrayAttrs : self'[attr] = self[attr]]_vars

\* C11: concatenate raises a TypeError when its argument is no ScadaData, and
\* a ValueError when the sensor configurations differ, the frozen flags
\* differ, or the event lists differ in length or in any element.
C11_ConcatenateRejects ==
    [][op' = "concatenate" =>
          /\ arg'.kind # "ScadaData" => res' = "TypeError"
          /\ (/\ arg'.kind = "ScadaData"
              /\ \/ self.sensor_config # other.sensor_config
                 \/ self.frozen_sensor_config # other.frozen_sensor_config
                 \/ self.sensor_reading_events # other.sensor_reading_events)
                => res' = "ValueError"]_vars

\* C11 witness: concatenate has raised a ValueError on two instances that
\* agree in configuration, frozen flag and number of events and differ in one
\* event
C11_Witness ==
    /\ op = "concatenate" /\ res = "ValueError" /\ arg.kind = "ScadaData"
    /\ self.sensor_config = other.sensor_config
    /\ self.frozen_sensor_config = other.frozen_sensor_config
    /\ Len(self.sensor_reading_events) = Len(other.sensor_reading_events)
    /\ Len(self.sensor_reading_events) > 0
    /\ self.sensor_reading_events # other.sensor_reading_events

\* the instance constructed with frozen_sensor_config=True from the sensor
\* configuration, raw arrays, noise and events of the non-frozen instance s
FrozenTwin(s) == NewScadaData([AttributesOf(s) EXCEPT !.frozen_sensor_config = TRUE])

\* column c of a matrix
Column(m, c) == [r \in 1..Len(m.rows) |-> m.rows[r][c]]

\* C12: frozen round trip as claimed.  For every non-frozen instance, the
\* instance constructed frozen from the same sensor configuration, raw
\* arrays, noise and events returns from get_data exactly when the non-frozen
\* one does, with the same matrix; and in the frozen instance's clean matrix
\* the column at get_index_of_reading(role, id) holds the raw values of that
\* sensor, whatever raw quantities are present.
C12_FrozenRoundTrip ==
    ~self.frozen_sensor_config =>
        LET tw == FrozenTwin(self)
        IN  /\ (GetDataOutcome(tw) = "ok") <=> (GetDataOutcome(self) = "ok")
            /\ (GetDataOutcome(tw) = "ok" /\ GetDataOutcome(self) = "ok") =>
                   GetDataMatrix(tw) = GetDataMatrix(self)
            /\ GetDataOutcome(tw) = "ok" =>
                   \A role \in RoleSet :
                       ~self[RawAttr[role]].isNone =>
                           \A k \in 1..Len(RoleSensors(self.sensor_config, role)) :
                               LET c == GetIndexOfReading(self.sensor_config, role,
                                           RoleSensors(self.sensor_config, role)[k])
                                   m == HCat(CleanBlocks(tw))
                               IN  /\ c <= m.dims[1]
                                   /\ Column(m, c)
                                        = Column(RoleColumns(self.sensor_config, role,
                                                             self[RawAttr[role]]), k)

\* C13: invariant I2 as claimed.  In every reachable state of a frozen
\* instance each present raw quantity array has exactly as many columns as the
\* sensor configuration has sensors of that quantity, and a quantity without
\* sensors is stored as absent.
C13_FrozenColumnsMatchSensors ==
    self.frozen_sensor_config =>
        \A role \in RoleSet :
            LET a == self[RawAttr[role]]
                n == Len(RoleSensors(self.sensor_config, role))
            IN  /\ ~a.isNone => (Len(a.dims) = 1 /\ a.dims[1] = n)
                /\ n = 0 => a.isNone

\* C14: as claimed, whenever get_data returns, the matrix has
\* len(sensor_readings_time) rows and one column per sensor of the sensor
\* configuration, frozen or not and whatever raw arrays are present, and the
\* same matrix is the cache.
C14_ReadingsShape ==
    (op = "get_data" /\ res = "ok") =>
        /\ NRows(ret) = Len(self.sensor_readings_time)
        /\ ret.dims = <<TotalSensors(self.sensor_config)>>
        /\ self.sensor_readings = ret

RECURSIVE LayoutFrom(_, _)
\* the role whose readings each column of the clean matrix of s holds, for the
\* blocks of the roles k.. as get_data lays them out
LayoutFrom(s, k) ==
    IF k > Len(Roles) THEN <<>>
    ELSE LET a == s[RawAttr[Roles[k]]]
             n == IF a.isNone THEN 0
                  ELSE IF s.frozen_sensor_config THEN a.dims[1]
                  ELSE Len(RoleSensors(s.sensor_config, Roles[k]))
         IN  [c \in 1..n |-> Roles[k]] \o LayoutFrom(s, k + 1)

\* the clean matrix of s with the noise of s on every column that holds no
\* pump state and no valve state
NoiseOffStateColumns(s) ==
    LET clean == HCat(CleanBlocks(s))
        lay == LayoutFrom(s, 1)
    IN  Arr(clean.dims,
            [r \in 1..Len(clean.rows) |->
                [c \in 1..clean.dims[1] |->
                    IF lay[c] \in {"pump_state", "valve_state"} THEN clean.rows[r][c]
                    ELSE NoiseApply(s.sensor_noise, clean.rows[r][c])]])

\* C15: state-sensor noise exclusion as claimed.  Whenever get_data returns
\* on an instance with a noise model and a pump state or valve state sensor,
\* the matrix the events were applied to is the clean matrix with its pump
\* state and valve state columns untouched and the noise on exactly the other
\* columns.
C15_NoiseSparesStateColumns ==
    (/\ op = "get_data" /\ res = "ok"
     /\ self.sensor_noise # "None"
     /\ Len(self.sensor_config.pump_state_sensors)
          + Len(self.sensor_config.valve_state_sensors) > 0) =>
        ret = ApplyEvents(NoiseOffStateColumns(self), self.apply_sensor_reading_events,
                          self.sensor_readings_time)

\* the matrix of s after the noise step of get_data
Noised(s) == ApplyNoise(s, HCat(CleanBlocks(s)))

RECURSIVE ChainOn(_, _, _, _)
\* e_k.apply(... e_1.apply(col, time) ..., time) for the events e_1..e_k of the
\* plan, in list order, whose column index is c
ChainOn(plan, c, col, time) ==
    IF plan = <<>> THEN col
    ELSE ChainOn(Tail(plan), c,
                 IF Head(plan).idx = c THEN EventApply(Head(plan).ev, col, time) ELSE col,
                 time)

\* C16: event ordering as claimed.  Whenever get_data returns, every column
\* of the matrix is the noised column with the events that target it applied
\* one after the other in list order.
C16_EventsInListOrder ==
    (op = "get_data" /\ res = "ok") =>
        \A c \in 1..ret.dims[1] :
            Column(ret, c) = ChainOn(self.apply_sensor_reading_events, c,
                                     Column(Noised(self), c), self.sensor_readings_time)

\* C17: no cross-contamination as claimed.  Whenever get_data returns, each
\* event of the plan has replaced the column at its index by its result on
\* that column and the time vector, and has left every other column of the
\* matrix as it was.
C17_EventsTouchOneColumn ==
    (op = "get_data" /\ res = "ok") =>
        \A k \in 1..Len(self.apply_sensor_reading_events) :
            LET p == self.apply_sensor_reading_events[k]
                before == ApplyEvents(Noised(self),
                                      SubSeq(self.apply_sensor_reading_events, 1, k - 1),
                                      self.sensor_readings_time)
                after == ApplyEvent(before, p, self.sensor_readings_time)
            IN  \A c \in 1..before.dims[1] :
                    Column(after, c)
                      = IF c = p.idx
                        THEN EventApply(p.ev, Column(before, c), self.sensor_readings_time)
                        ELSE Column(before, c)

RECURSIVE WithKnownType(_)
\* the events of a list whose sensor type is one of the sensor roles
WithKnownType(events) ==
    IF events = <<>> THEN <<>>
    ELSE (IF Head(events).sensor_type \in RoleSet THEN <<Head(events)>> ELSE <<>>)
         \o WithKnownType(Tail(events))

\* C18: as claimed, an event whose sensor type is no sensor role is skipped:
\* whenever get_data returns, the matrix is the one get_data returns with
\* those events removed from the list.
C18_UnknownTypeEventSkipped ==
    (op = "get_data" /\ res = "ok") =>
        ret = GetDataMatrix(ChangeSensorReadingEvents(self,
                                WithKnownType(self.sensor_reading_events)).st)

\* the events of class cls in the list l
EventsOfClass(l, cls) == {l[k] : k \in {j \in 1..Len(l) : l[j].cls = cls}}

\* C19: change_sensor_faults(F) keeps every non-fault event of the list, in
\* the same relative order, and makes the set of fault events exactly F;
\* change_sensor_reading_attacks(A) does the same for attacks;
\* change_sensor_reading_events(E) makes the list exactly E
C19_SelectiveReplacement ==
    [][/\ (op' = "change_sensor_faults" /\ res' = "ok") =>
            /\ FilterNotClass(self'.sensor_reading_events, "SensorFault")
                   = FilterNotClass(self.sensor_reading_events, "SensorFault")
            /\ EventsOfClass(self'.sensor_reading_events, "SensorFault")
                   = {arg'.locs[k] : k \in 1..Len(arg'.locs)}
       /\ (op' = "change_sensor_reading_attacks" /\ res' = "ok") =>
            /\ FilterNotClass(self'.sensor_reading_events, "SensorReadingAttack")
                   = FilterNotClass(self.sensor_reading_events, "SensorReadingAttack")
            /\ EventsOfClass(self'.sensor_reading_events, "SensorReadingAttack")
                   = {arg'.locs[k] : k \in 1..Len(arg'.locs)}
       /\ (op' = "change_sensor_reading_events" /\ res' = "ok") =>
            self'.sensor_reading_events = arg'.locs]_vars

\* faults were changed on a list that holds a generic event and an attack,
\* which are still there, in their order, in front of the new fault
C19_Witness ==
    /\ op = "change_sensor_faults"
    /\ res = "ok"
    /\ arg.locs = <<F1>>
    /\ self.sensor_reading_events = <<G1, A1, F1>>

\* every requested location (for a species role: every requested species and
\* every requested element of it) is part of the sensor configuration
AllRequestedConfigured(cfg, role, locs) ==
    IF role \in SpeciesRoles
    THEN \A i \in 1..Len(locs) :
            /\ HasKey(cfg[SensorsAttr[role]], locs[i][1])
            /\ \A j \in 1..Len(locs[i][2]) :
                   InList(Lookup(cfg[SensorsAttr[role]], locs[i][1]), locs[i][2][j])
    ELSE \A i \in 1..Len(locs) : InList(cfg[SensorsAttr[role]], locs[i])

\* C20: a quantity-specific getter called with no locations or with a list
\* (dictionary) of locations fails with ValueError if no sensors of its type
\* are configured or if a requested location is not configured, fails with
\* no other kind of error, and returns one column per requested location
C20_GettersRaiseValueError ==
    \A role \in RoleSet :
        (op = GetterName[role] /\ arg.kind \in {"default", "locations"}) =>
            /\ res \in {"ok", "ValueError"}
            /\ self.sensor_config[SensorsAttr[role]] = <<>> => res = "ValueError"
            /\ (arg.kind = "locations"
                   /\ ~AllRequestedConfigured(self.sensor_config, role, arg.locs))
                  => res = "ValueError"
            /\ (arg.kind = "locations" /\ res = "ok")
                  => ret.dims = <<IF role \in SpeciesRoles
                                  THEN Len(FlattenSpecies(arg.locs))
                                  ELSE Len(arg.locs)>>

\* the names of the quantity-specific getters
GetterNames == {GetterName[role] : role \in RoleSet}

\* the role whose getter has the name g
RoleOfGetter(g) == CHOOSE role \in RoleSet : GetterName[role] = g

\* the columns of the matrix m that the getter of a role returns for argument a
SliceOf(s, m, role, a) ==
    LET locs == RequestedSensors(s.sensor_config, role, a)
    IN  TakeCols(m, [k \in 1..Len(locs) |->
                        GetIndexOfReading(s.sensor_config, role, locs[k])])

\* C21: a getter that finds cached readings leaves the instance as it is and
\* returns the requested columns of the cached matrix; a getter that finds
\* none returns the requested columns of the matrix it then caches; and
\* get_data caches the matrix it returns.  So getter calls with no mutator
\* and no get_data call between them return columns of one matrix, after a
\* get_data call those of the matrix that call returned.
C21_GettersSliceTheCache ==
    [][/\ (op' \in GetterNames /\ res' = "ok") =>
            /\ ~self.sensor_readings.isNone => self' = self
            /\ ~self'.sensor_readings.isNone
            /\ ret' = SliceOf(self', self'.sensor_readings, RoleOfGetter(op'), arg')
       /\ (op' = "get_data" /\ res' = "ok") => self'.sensor_readings = ret']_vars

\* a getter has returned columns of readings that were cached under a noise
\* draw other than the one of its own call would have been
C21_Witness ==
    /\ op \in GetterNames /\ res = "ok" /\ hadCache
    /\ self.sensor_noise # "None"
    /\ self.sensor_readings = GetDataMatrixDraw(self, 6)
    /\ ret = SliceOf(self, GetDataMatrixDraw(self, 6), RoleOfGetter(op), arg)
    /\ ret # SliceOf(self, GetDataMatrixDraw(self, 5), RoleOfGetter(op), arg)

\* the raw array of a role as the simulation run of the instances yields it
RunRaw(s, role) == RawOfRun(P0.net, role, P0.seed, Len(s.sensor_readings_time))

\* the raw values of the sensorized elements of a role, one column per sensor
RawOfSensors(s, role) == RoleColumns(s.sensor_config, role, RunRaw(s, role))

\* C22: identity pipeline.  With no noise and no events, the matrix get_data
\* returns holds, for every sensor whose quantity has raw data, the raw values
\* of its element in the column of its sensor index; the getter of a role
\* with raw data returns the raw values of the role's sensors; and the getter
\* of a role without sensors raises ValueError.
C22_IdentityPipeline ==
    (self.sensor_noise = "None" /\ self.sensor_reading_events = <<>>) =>
        \A role \in RoleSet :
            LET sens == RoleSensors(self.sensor_config, role)
            IN  /\ (op = "get_data" /\ res = "ok" /\ ~self[RawAttr[role]].isNone) =>
                       \A k \in 1..Len(sens) :
                           LET c == GetIndexOfReading(self.sensor_config, role, sens[k])
                           IN  /\ c <= ret.dims[1]
                               /\ Column(ret, c) = Column(RawOfSensors(self, role), k)
                /\ (op = GetterName[role] /\ arg.kind = "default") =>
                       /\ sens = <<>> => res = "ValueError"
                       /\ (res = "ok" /\ ~self[RawAttr[role]].isNone) =>
                              ret = RawOfSensors(self, role)

\* the arrays among the arguments a whose number of rows is not the number of
\* time steps
Mismatched(a) ==
    {f \in ArrayAttrs : ~a[f].isNone /\ NRows(a[f]) # Len(a.sensor_readings_time)}

\* C23: a constructor call in which exactly one of the thirteen arrays has a
\* number of rows other than the length of sensor_readings_time fails with a
\* ValueError that names that array and produces no instance; and every
\* constructor call that succeeds had no such array and yields an instance
\* whose present arrays all have as many rows as the time vector
C23_ShapeMismatchRejected ==
    [][op' = "__init__" =>
          LET a == arg'.locs
          IN  /\ (Cardinality(Mismatched(a)) = 1 /\ EventTypesOk(a)) =>
                     /\ res' = "ValueError"
                     /\ ret' = [var_name |-> CHOOSE f \in Mismatched(a) : TRUE]
                     /\ self' = self
              /\ res' = "ok" =>
                     /\ Mismatched(a) = {}
                     /\ RowsMatchTime(self')
                     /\ self'.sensor_readings_time = a.sensor_readings_time]_vars

\* a constructor call in which only the pump efficiency has a row too many
\* has failed, naming it
C23_Witness ==
    /\ op = "__init__"
    /\ res = "ValueError"
    /\ Mismatched(arg.locs) = {"pump_efficiency_data"}
    /\ ~arg.locs.pressure_data_raw.isNone
    /\ ret = [var_name |-> "pump_efficiency_data"]

\* C24: when the caller changes in place a value returned by a property, by
\* get_data or by a getter, the instance, its cache included, stays as it
\* is, and so does every value a later getter call returns; and when, after
\* join(other), an object of other is changed in place, self stays as it is
C24_NoSharing ==
    [][/\ op' \in {"mutate_returned", "mutate_other"} => self' = self
       /\ (op' = "property" /\ res' = "ok") => ret' = PropertyValue(self, arg'.locs[1])
       /\ (op' = "get_data" /\ res' = "ok") => ret' = GetDataMatrix(self)]_vars

\* the matrix returned by get_data has been changed in place by the caller
\* and the cached readings have not
C24_Witness ==
    /\ op = "mutate_returned"
    /\ arg.locs = <<"get_data">>
    /\ self.sensor_noise # "None"
    /\ ~self.sensor_readings.isNone
    /\ ret # self.sensor_readings
    /\ self.sensor_readings = GetDataMatrix(self)

\* the fields an instance is rebuilt from
ConstructorFields ==
    ArrayAttrs \cup {"sensor_config", "frozen_sensor_config", "sensor_noise",
                     "sensor_reading_events", "sensor_readings_time"}

\* C25: constructing an instance from get_attributes() succeeds and yields
\* the frozen flag, sensor configuration, noise, event list, time vector and
\* arrays of the original, hence the same readings, frozen or not
C25_AttributesRoundTrip ==
    [][op' = "rebuild" =>
          /\ res' = "ok"
          /\ \A f \in ConstructorFields : self'[f] = self[f]
          /\ GetDataOutcome(self') = GetDataOutcome(self)
          /\ GetDataOutcome(self) = "ok" => GetDataMatrix(self') = GetDataMatrix(self)]_vars

\* C26: in every reachable state the event-application plan has one entry
\* per event of sensor_reading_events, in the same order, each with the column
\* index that the current sensor configuration resolves for the event's sensor
\* type and sensor id
C26_PlanConsistent ==
    /\ Len(self.apply_sensor_reading_events) = Len(self.sensor_reading_events)
    /\ \A k \in 1..Len(self.sensor_reading_events) :
          LET e == self.sensor_reading_events[k]
          IN  /\ self.apply_sensor_reading_events[k].ev = e
              /\ self.apply_sensor_reading_events[k].idx
                    = GetIndexOfReading(self.sensor_config, e.sensor_type, e.sensor_id)

\* join has given self the pressure sensor that the fault of its event list
\* is about, and the plan resolves the fault to that sensor's column
C26_Witness ==
    /\ op = "join" /\ res = "ok"
    /\ self.sensor_reading_events = <<F2>>
    /\ self.pressure_data_raw = other.pressure_data_raw
    /\ self.sensor_config.pressure_sensors = <<"n2">>
    /\ self.apply_sensor_reading_events[1].idx = 1

\* C27: as claimed, between two instances with the same sensor configuration,
\* frozen flag and events, concatenate raises only if some array is present
\* in both with shapes that cannot be appended; an array present in one of
\* them and absent in the other does not make it raise
C27_ConcatenateOneSidedProceeds ==
    [][(op' = "concatenate" /\ arg'.kind = "ScadaData"
        /\ self.sensor_config = other.sensor_config
        /\ self.frozen_sensor_config = other.frozen_sensor_config
        /\ self.sensor_reading_events = other.sensor_reading_events
        /\ res' # "ok") =>
          \E attr \in ArrayAttrs :
              /\ ~self[attr].isNone /\ ~other[attr].isNone
              /\ self[attr].dims # other[attr].dims]_vars

\* the state of an instance that join writes, besides cache and plan
JoinedFields ==
    ArrayAttrs \cup {"sensor_config", "sensor_reading_events", "sensor_readings_time"}

\* C28: the second of two consecutive self.join(other) calls, the first of
\* which returned, returns too and leaves the raw arrays, the pump arrays,
\* the sensor configuration, the event list and the time vector of self as
\* the first call left them
C28_JoinIdempotent ==
    [][(op = "join" /\ res = "ok" /\ op' = "join") =>
          /\ res' = "ok"
          /\ \A f \in JoinedFields : self'[f] = self[f]]_vars

\* join has returned on an instance that had adopted the flow data and the
\* flow sensors of other, and a further join(other) leaves it as it is
C28_Witness ==
    /\ op = "join" /\ res = "ok"
    /\ ~self.flow_data_raw.isNone
    /\ self.flow_data_raw = other.flow_data_raw
    /\ self.sensor_config.flow_sensors = other.sensor_config.flow_sensors
    /\ ~self.node_quality_data_raw.isNone
    /\ self.node_quality_data_raw # other.node_quality_data_raw
    /\ Join(self, other) = [st |-> self, res |-> "ok"]

\* the fields two equal instances agree on
ComparedFields ==
    ArrayAttrs \cup {"sensor_config", "frozen_sensor_config", "sensor_noise",
                     "sensor_reading_events", "sensor_readings_time"}

\* C29: as claimed, self == other raises a TypeError when other is no
\* ScadaData, and returns True only if the two instances agree on the sensor
\* configuration, the frozen flag, the noise, the whole event lists, the time
\* vector and every array, the demand included
C29_EqualsComparesEveryField ==
    op = "__eq__" =>
        /\ arg.kind # "ScadaData" => res = "TypeError"
        /\ arg.kind = "ScadaData" =>
              /\ res = "ok"
              /\ ret = TRUE => \A f \in ComparedFields : self[f] = other[f]

\* C30: as claimed, an export leaves the sensor configuration as it was
\* before the call, whether it returns or raises, with export_raw_data True
\* or False, on frozen and non-frozen instances
C30_ExportRestoresSensorConfig ==
    [][op' = "export" => self'.sensor_config = self.sensor_config]_vars
====
